---- MODULE Spec2Model ----
(***************************************************************************)
(* Model of the DVRPC traffic-counts API (metadata.py, volume.py,          *)
(* non_normal_volume.py, classed.py, common.py, counts.py).                *)
(*                                                                         *)
(* The database is the variable db, a record with one field per table;     *)
(* each table is a set of rows.  The CSV cache directory is the variable   *)
(* files, and now is the clock.  Every request handler is one action that  *)
(* leaves its HTTP response, the queries it issued and whether it logged   *)
(* an error in the variable last, until the response is sent.  The         *)
(* external data-entry process is modelled by the actions that change db   *)
(* between two requests, so a response held in last was computed on the    *)
(* current database; entries counts its operations.                        *)
(*                                                                         *)
(* Strings that the code takes apart (sub-kind labels, whose spaces are    *)
(* stripped to build the static_pdf URL) are sequences of tokens; all      *)
(* other strings are TLA+ strings.  A timestamp is a record                *)
(* [date, hour, minute]; a date is a day number (the 'YYYY-MM-DD' text of  *)
(* a date is zero padded, so its text order is its chronological order).   *)
(***************************************************************************)
EXTENDS Integers, Sequences, FiniteSets, TLC

VARIABLES db, files, now, last, entries, dirs, writing

vars == <<db, files, now, last, entries, dirs, writing>>

(***************************************************************************)
(* Bounds of the model.                                                    *)
(***************************************************************************)
\* Data-entry operations (device files uploaded, dates flagged, AADVs recomputed)
\* in a behaviour.
MaxEntries == 3

\* The clock: now counts ticks up to MaxClock, TicksPerDay ticks to a calendar day.
MaxClock == 2

TicksPerDay == 2

Nums == {1, 2}

\* The dates of the model, ascending.
DateLine == <<1, 2>>

Dates == { DateLine[i] : i \in DOMAIN DateLine }

\* Python's None and a present value of an Optional field.
None == << >>

Some(v) == << v >>

(***************************************************************************)
(* counts.py: the static membership tables of sub-kind labels.             *)
(***************************************************************************)
BicycleCountKind ==
    { <<"Bicycle", " ", "1">>, <<"Bicycle", " ", "2">>, <<"Bicycle", " ", "3">>,
      <<"Bicycle", " ", "4">>, <<"Bicycle", " ", "5">>, <<"Bicycle", " ", "6">> }

\* A pedestrian table that also lists a bicycle label.
PedestrianCountKind_overlapping ==
    { <<"Pedestrian">>, <<"Pedestrian", " ", "2">>, <<"Bicycle", " ", "2">> }

PedestrianCountKind == { <<"Pedestrian">>, <<"Pedestrian", " ", "2">> }

\* The vehicle sub-kinds with the label Loop among them.
VehicleCountKind_with_loop ==
    { <<"Volume">>, <<"15", " ", "min", " ", "Volume">>, <<"Class">>, <<"Speed">>, <<"Loop">> }

VehicleCountKind ==
    { <<"Volume">>, <<"15", " ", "min", " ", "Volume">>, <<"Class">>, <<"Speed">> }

NotInDatabaseCountKind ==
    { <<"Turning", " ", "Movement">>, <<"Manual", " ", "Class">>, <<"Crosswalk">> }

CountKind ==
    [ vehicle |-> "vehicle", bicycle |-> "bicycle", pedestrian |-> "pedestrian",
      no_data |-> "count data not in database" ]

\* Labels of tc_counttype that none of the tables above lists (main.py:53-54).
UnlistedKinds == { <<"Loop">> }

\* The TYPE values the model's header rows take: one or two labels per table.
TypePool ==
    { <<"Bicycle", " ", "2">>, <<"Pedestrian", " ", "2">>, <<"Volume">>, <<"Class">>,
      <<"Turning", " ", "Movement">>, <<"Manual", " ", "Class">>, <<"Loop">> }

StatusPool == { "publish", "draft" }

RawTables == { "tc_volcount_new", "tc_bikecount_new", "tc_pedcount_new", "tc_clacount_new" }

(***************************************************************************)
(* Timestamps and the conversions the queries and the code apply to them.  *)
(***************************************************************************)
Ts(d, h, m) == [date |-> d, hour |-> h, minute |-> m]

\* Oracle TRUNC(countdatetime, 'HH24')
TruncHH24(ts) == [ts EXCEPT !.minute = 0]

\* Oracle to_char(countdatetime, 'YYYY-MM-DD'); datetime.date()
DateOf(ts) == ts.date

HH24Codes ==
    << "00", "01", "02", "03", "04", "05", "06", "07", "08", "09", "10", "11",
       "12", "13", "14", "15", "16", "17", "18", "19", "20", "21", "22", "23" >>

\* Oracle to_char(countdatetime, 'HH24')
ToCharHH24(ts) == HH24Codes[ts.hour + 1]

TsLess(a, b) ==
    \/ a.date < b.date
    \/ a.date = b.date /\ a.hour < b.hour
    \/ a.date = b.date /\ a.hour = b.hour /\ a.minute < b.minute

RECURSIVE Ascending(_, _)
\* The timestamps of the given dates (ascending), hours and minutes, in
\* chronological order.
Ascending(dates, minutes) ==
    IF dates = << >> THEN << >>
    ELSE [ i \in 1..(24 * Len(minutes)) |->
             Ts(Head(dates), (i - 1) \div Len(minutes), minutes[((i - 1) % Len(minutes)) + 1]) ]
         \o Ascending(Tail(dates), minutes)

\* Every timestamp of the model, in chronological order.
Timeline == Ascending(DateLine, <<0, 30>>)

\* The timestamps of a set in descending order.
SortTs_desc(S) ==
    LET asc == SelectSeq(Timeline, LAMBDA ts : ts \in S)
    IN  [ i \in DOMAIN asc |-> asc[Len(asc) + 1 - i] ]

\* ORDER BY of a set of timestamps, ascending.
SortTs(S) == SelectSeq(Timeline, LAMBDA ts : ts \in S)

RECURSIVE SumOf(_, _)
\* SQL sum(col) over a set of rows; col is a field name.
SumOf(rows, col) ==
    IF rows = {} THEN 0
    ELSE LET r == CHOOSE x \in rows : TRUE
         IN  r[col] + SumOf(rows \ {r}, col)

Range(s) == { s[i] : i \in DOMAIN s }

(***************************************************************************)
(* Results of the functions that can raise: the value or the exception,    *)
(* and the tables queried so far, in order.                                *)
(***************************************************************************)
Ok(val, q) == [exc |-> "ok", val |-> val, queries |-> q]

Raise(e, q) == [exc |-> e, val |-> None, queries |-> q]

\* A connection that is opened and left open.
Connection_leaked(q) == << "connect" >> \o q

\* with oracledb.connect(...) as connection: the connection is opened, the
\* queries of the block are executed on it, and it is closed when the block
\* is left, by a return or an exception as well.
Connection(q) == << "connect" >> \o q \o << "close" >>

\* cursor.execute(...) raises oracledb.DatabaseError when the table of the
\* statement cannot be queried (db.failing holds these tables).  Of the
\* statements q of a with block, the ones up to the first that raises are
\* executed; the exception leaves the block, which closes the connection.
Interrupted(q) == \E i \in DOMAIN q : q[i] \in db.failing

\* The statement that raised is executed a second time.
Executed_reissued(q) ==
    LET i == CHOOSE i \in DOMAIN q :
                 q[i] \in db.failing /\ \A j \in 1..(i - 1) : q[j] \notin db.failing
    IN  SubSeq(q, 1, i) \o << q[i] >>

Executed(q) ==
    SubSeq(q, 1, CHOOSE i \in DOMAIN q :
                    q[i] \in db.failing /\ \A j \in 1..(i - 1) : q[j] \notin db.failing)

DatabaseError(q) == Raise("DatabaseError", Connection(Executed(q)))

\* cursor.fetchone(): a row of the result set, or None.
FetchOne(rows) == IF rows = {} THEN None ELSE Some(CHOOSE r \in rows : TRUE)

(***************************************************************************)
(* metadata.py                                                             *)
(***************************************************************************)
\* A chain that ends with else: a TYPE of no table is "not in database".
classify_with_else(type) ==
    IF type \in BicycleCountKind THEN Some(CountKind.bicycle)
    ELSE IF type \in PedestrianCountKind THEN Some(CountKind.pedestrian)
    ELSE IF type \in VehicleCountKind THEN Some(CountKind.vehicle)
    ELSE Some(CountKind.no_data)

\* The if/elif chain that classifies the header's TYPE.
classify(type) ==
    IF type \in BicycleCountKind THEN Some(CountKind.bicycle)
    ELSE IF type \in PedestrianCountKind THEN Some(CountKind.pedestrian)
    ELSE IF type \in VehicleCountKind THEN Some(CountKind.vehicle)
    ELSE IF type \in NotInDatabaseCountKind THEN Some(CountKind.no_data)
    ELSE None

\* Values of a database column: a number or a text.
DbNumber(n) == [number |-> n]

DbText(t) == [text |-> t]

\* pydantic coerces the value of a column into Optional[int]: a number is
\* accepted, a text that is not a number raises ValidationError.
Coercible(value) == DOMAIN value = {"number"}

\* Truth value of an Optional[str]: None and "" are false.
Truthy(opt) == opt # None /\ opt # Some("")

\* Every SOURCE but "0" taken to be external.
normalize_source_default(SOURCE) ==
    IF SOURCE = Some("0") THEN Some("DVRPC") ELSE Some("external")

\* map SOURCE to human-readable version
normalize_source(SOURCE) ==
    IF SOURCE = Some("0") THEN Some("DVRPC")
    ELSE IF SOURCE = Some("-1") THEN Some("external")
    ELSE SOURCE

\* get_metadata without the check of STATUS.
get_metadata_any_status(num) ==
    LET fetched == FetchOne({ r \in db.tc_header : r.RECORDNUM = num })
        metadata == fetched[1]
        q == << "tc_header" >>
    IN  IF fetched = None THEN Raise("NotFoundError", Connection(q))
        ELSE IF ~Coercible(metadata.SPEEDLIMIT) THEN Raise("ValidationError", Connection(q))
        ELSE Ok([ RECORDNUM    |-> metadata.RECORDNUM,
                  SOURCE       |-> metadata.SOURCE,
                  count_type   |-> classify(metadata.TYPE),
                  sub_type     |-> metadata.TYPE,
                  MCD          |-> metadata.MCD,
                  municipality |-> None,
                  county       |-> None,
                  state        |-> None ], Connection(q))

get_metadata(num) ==
    LET fetched == FetchOne({ r \in db.tc_header : r.RECORDNUM = num })
        metadata == fetched[1]
        q == << "tc_header" >>
    IN  IF Interrupted(q) THEN DatabaseError(q)
        ELSE IF fetched = None THEN Raise("NotFoundError", Connection(q))
        ELSE IF metadata.STATUS # "publish" THEN Raise("NotPublishedError", Connection(q))
        \* metadata = Metadata(**metadata)
        ELSE IF ~Coercible(metadata.SPEEDLIMIT) THEN Raise("ValidationError", Connection(q))
        ELSE IF Truthy(metadata.MCD) /\ Interrupted(<< "tc_mcd" >>)
        THEN DatabaseError(q \o << "tc_mcd" >>)
        ELSE
        LET mcd_data == FetchOne({ r \in db.tc_mcd : Some(r.dvrpc) = metadata.MCD })
            named == Truthy(metadata.MCD) /\ mcd_data # None
        IN  Ok([ RECORDNUM    |-> metadata.RECORDNUM,
                 SOURCE       |-> normalize_source(metadata.SOURCE),
                 count_type   |-> classify(metadata.TYPE),
                 sub_type     |-> metadata.TYPE,
                 MCD          |-> metadata.MCD,
                 municipality |-> IF named THEN Some(mcd_data[1].mcdname) ELSE None,
                 county       |-> IF named THEN Some(mcd_data[1].county) ELSE None,
                 state        |-> IF named THEN Some(mcd_data[1].state) ELSE None ],
               Connection(IF Truthy(metadata.MCD) THEN q \o << "tc_mcd" >> ELSE q))

(***************************************************************************)
(* common.py                                                               *)
(***************************************************************************)
\* get_suppressed_dates without "and isfulldate = 'No'".
get_suppressed_dates_any_flag(num) ==
    LET data == SortTs({ r.countdate : r \in { x \in db.tc_countdate : x.recordnum = num } })
    IN  [ i \in 1..Len(data) |-> DateOf(data[i]) ]

\* select distinct(countdate) ... where recordnum = :num and isfulldate = 'No',
\* then x[0].date() of every fetched row.  The query has no ORDER BY; the rows
\* are taken in ascending order of countdate.
get_suppressed_dates(num) ==
    LET data == SortTs({ r.countdate : r \in { x \in db.tc_countdate :
                             x.recordnum = num /\ x.isfulldate = "No" } })
    IN  [ i \in 1..Len(data) |-> DateOf(data[i]) ]

\* The except chain without its NotFoundError clause.
ErrorResponse_no_404(exc) ==
    CASE exc = "NotPublishedError" ->
           [status |-> 403, body |-> [message |-> "Requested record is not published."],
            logged |-> FALSE]
      [] exc = "ValidationError" ->
           [status |-> 500, body |-> [message |-> "Unexpected data type found."],
            logged |-> TRUE]
      [] OTHER ->
           [status |-> 500, body |-> [message |-> "Unknown error occurred."],
            logged |-> TRUE]

\* Maps an exception to the handler's JSON error response (the except chain
\* shared by every by-id handler).
ErrorResponse(exc) ==
    CASE exc = "NotFoundError" ->
           [status |-> 404, body |-> [message |-> "Record not found."], logged |-> FALSE]
      [] exc = "NotPublishedError" ->
           [status |-> 403, body |-> [message |-> "Requested record is not published."],
            logged |-> FALSE]
      [] exc = "ValidationError" ->
           [status |-> 500, body |-> [message |-> "Unexpected data type found."],
            logged |-> TRUE]
      [] OTHER ->
           [status |-> 500, body |-> [message |-> "Unknown error occurred."],
            logged |-> TRUE]

\* An exception no except clause of the handler catches: the framework
\* answers 500 with the plain text "Internal Server Error" and logs it.
Unhandled(exc) == [status |-> 500, body |-> [text |-> "Internal Server Error"], logged |-> TRUE]

\* What a JSON handler returns for the result of its worker function.
JsonResponse(res) ==
    IF res.exc = "ok" THEN [status |-> 200, body |-> res.val, logged |-> FALSE]
    ELSE ErrorResponse(res.exc)

(***************************************************************************)
(* volume.py                                                               *)
(***************************************************************************)
\* The three consecutive ifs that pick the raw table of an in-database kind.
tc_table_of(sub_type) ==
    LET t1 == IF sub_type \in BicycleCountKind THEN "tc_bikecount_new" ELSE "unbound"
        t2 == IF sub_type \in PedestrianCountKind THEN "tc_pedcount_new" ELSE t1
    IN  IF sub_type \in VehicleCountKind THEN "tc_volcount_new" ELSE t2

\* The hourly query grouped by hour of the day instead of by truncated
\* timestamp: each hour is keyed by its first truncated timestamp.
HourlyVolumeQuery_by_hour_of_day(tc_table, num) ==
    LET rows == { r \in db[tc_table] : r.recordnum = num }
        all == SortTs({ TruncHH24(r.countdatetime) : r \in rows })
        keys == SelectSeq(all, LAMBDA k : \A j \in Range(all) : j.hour = k.hour => ~TsLess(j, k))
    IN  [ i \in 1..Len(keys) |->
            << keys[i],
               SumOf({ r \in rows : r.countdatetime.hour = keys[i].hour }, "volume") >> ]

\* select TRUNC(countdatetime,'HH24'), sum(volume) from tc_table
\* where recordnum = :num group by ... order by ...
HourlyVolumeQuery(tc_table, num) ==
    LET rows == { r \in db[tc_table] : r.recordnum = num }
        keys == SortTs({ TruncHH24(r.countdatetime) : r \in rows })
    IN  [ i \in 1..Len(keys) |->
            << keys[i],
               SumOf({ r \in rows : TruncHH24(r.countdatetime) = keys[i] }, "volume") >> ]

\* d[k] = v on an insertion-ordered dict, kept as a sequence of [k, v]: a
\* key already present keeps its place and takes the new value.
DictSet(d, p) ==
    LET at == { i \in DOMAIN d : d[i].k = p[1] }
    IN  IF at = {} THEN Append(d, [k |-> p[1], v |-> p[2]])
        ELSE [ i \in DOMAIN d |-> IF i \in at THEN [k |-> p[1], v |-> p[2]] ELSE d[i] ]

RECURSIVE DictOfRange(_, _, _, _)
\* The generator of dict(...) over pairs[lo..hi], from the dict d.  The range
\* is split in halves, and the first half is evaluated (by the test on left)
\* before the second starts, to keep the evaluation shallow.
DictOfRange(pairs, lo, hi, d) ==
    IF lo > hi THEN d
    ELSE IF lo = hi THEN DictSet(d, pairs[lo])
    ELSE LET mid == (lo + hi) \div 2
             left == DictOfRange(pairs, lo, mid, d)
         IN  IF left = left THEN DictOfRange(pairs, mid + 1, hi, left) ELSE left

\* dict((x[0], x[1]) for x in count_data)
DictOfPairs(pairs) == DictOfRange(pairs, 1, Len(pairs), << >>)

\* sub_type.replace(" ", "")
StripSpaces(label) == SelectSeq(label, LAMBDA tok : tok # " ")

STATIC_PDF_BASE == "https://idnryib36jqh.objectstorage.us-ashburn-1.oci.customer-oci.com/p/CRSJ63CubnhBU9YppzcOZJuiALo2cVZsKVCBEEc_zt2UkPrQJaVId3Q5G2iQfiMB/n/idnryib36jqh/b/web-static-content/o/TrafficCountPDF/"

\* The f-string of the reference document's URL.
static_pdf_url(sub_type, recordnum) ==
    [ base |-> STATIC_PDF_BASE, sub_type_in_url |-> StripSpaces(sub_type),
      file |-> [recordnum |-> recordnum, ext |-> ".pdf"] ]

\* Lines 75-78 with the filter applied whatever include_suppressed is.
filter_hourly_always(count_data, suppressed_dates, include_suppressed) ==
    SelectSeq(count_data, LAMBDA e : DateOf(e.k) \notin Range(suppressed_dates))

\* if not include_suppressed: count_data = {k: v ... if k.date() not in suppressed_dates}
filter_hourly(count_data, suppressed_dates, include_suppressed) ==
    IF ~include_suppressed
    THEN SelectSeq(count_data, LAMBDA e : DateOf(e.k) \notin Range(suppressed_dates))
    ELSE count_data

\* volume.get_hourly_volume
get_hourly_volume(num, include_suppressed) ==
    LET md == get_metadata(num)
    IN  IF md.exc # "ok" THEN md
        ELSE
        LET metadata == md.val
            sub_type == metadata.sub_type
        IN  IF sub_type \in (BicycleCountKind \cup PedestrianCountKind \cup VehicleCountKind)
            THEN IF Interrupted(<< tc_table_of(sub_type), "tc_countdate" >>)
                 THEN Raise("DatabaseError", md.queries
                              \o DatabaseError(<< tc_table_of(sub_type), "tc_countdate" >>).queries)
                 ELSE
                 LET tc_table == tc_table_of(sub_type)
                     fetched == DictOfPairs(HourlyVolumeQuery(tc_table, num))
                     suppressed_dates == get_suppressed_dates(num)
                     count_data == filter_hourly(fetched, suppressed_dates, include_suppressed)
                 IN  Ok([ metadata         |-> metadata,
                          static_pdf       |-> None,
                          suppressed_dates |-> suppressed_dates,
                          counts           |-> count_data ],
                        md.queries \o Connection(<< tc_table, "tc_countdate" >>))
            ELSE IF sub_type \in NotInDatabaseCountKind
            THEN Ok([ metadata         |-> [metadata EXCEPT !.count_type = Some(CountKind.no_data)],
                      static_pdf       |-> Some(static_pdf_url(sub_type, metadata.RECORDNUM)),
                      suppressed_dates |-> << >>,
                      counts           |-> << >> ],
                    md.queries \o Connection(<< >>))
            \* neither branch binds hourly_volume: the return raises UnboundLocalError
            ELSE Raise("UnboundLocalError", md.queries \o Connection(<< >>))

(***************************************************************************)
(* non_normal_volume.py                                                    *)
(***************************************************************************)
\* The map with the slot of 01 entered again for 13.
am_pm_map_colliding ==
    << <<"00", "AM12">>, <<"01", "AM1">>, <<"02", "AM2">>, <<"03", "AM3">>,
       <<"04", "AM4">>, <<"05", "AM5">>, <<"06", "AM6">>, <<"07", "AM7">>,
       <<"08", "AM8">>, <<"09", "AM9">>, <<"10", "AM10">>, <<"11", "AM11">>,
       <<"12", "PM12">>, <<"13", "AM1">>, <<"14", "PM2">>, <<"15", "PM3">>,
       <<"16", "PM4">>, <<"17", "PM5">>, <<"18", "PM6">>, <<"19", "PM7">>,
       <<"20", "PM8">>, <<"21", "PM9">>, <<"22", "PM10">>, <<"23", "PM11">> >>

am_pm_map ==
    << <<"00", "AM12">>, <<"01", "AM1">>, <<"02", "AM2">>, <<"03", "AM3">>,
       <<"04", "AM4">>, <<"05", "AM5">>, <<"06", "AM6">>, <<"07", "AM7">>,
       <<"08", "AM8">>, <<"09", "AM9">>, <<"10", "AM10">>, <<"11", "AM11">>,
       <<"12", "PM12">>, <<"13", "PM1">>, <<"14", "PM2">>, <<"15", "PM3">>,
       <<"16", "PM4">>, <<"17", "PM5">>, <<"18", "PM6">>, <<"19", "PM7">>,
       <<"20", "PM8">>, <<"21", "PM9">>, <<"22", "PM10">>, <<"23", "PM11">> >>

\* The hour fields of NonNormalHourlyCount.
NonNormalHourlyCountFields ==
    { "AM12", "AM1", "AM2", "AM3", "AM4", "AM5", "AM6", "AM7", "AM8", "AM9", "AM10",
      "AM11", "PM12", "PM1", "PM2", "PM3", "PM4", "PM5", "PM6", "PM7", "PM8", "PM9",
      "PM10", "PM11" }

\* len(count.items()) != 24
FullDaySlots == 24

\* Every <<'YYYY-MM-DD' text, 'HH24' code>> of the model, by date and then by
\* code in text order (the codes are zero padded: "00" < "01" < ... < "23").
DateHourline ==
    LET hours == Ascending(DateLine, <<0>>)
    IN  [ i \in DOMAIN hours |-> << DateOf(hours[i]), ToCharHH24(hours[i]) >> ]

\* ORDER BY to_char(.., 'YYYY-MM-DD'), to_char(.., 'HH24') of a set of <<date, code>>.
SortDateHour(S) == SelectSeq(DateHourline, LAMBDA k : k \in S)

\* select to_char(countdatetime,'YYYY-MM-DD'), to_char(countdatetime,'HH24'),
\* sum(volume) from tc_table where recordnum = :num group by ... order by ...
NonNormalQuery(tc_table, num) ==
    LET rows == { r \in db[tc_table] : r.recordnum = num }
        key(r) == << DateOf(r.countdatetime), ToCharHH24(r.countdatetime) >>
        keys == SortDateHour({ key(r) : r \in rows })
    IN  [ i \in 1..Len(keys) |->
            [ COUNT_DATE    |-> keys[i][1],
              HOUR          |-> keys[i][2],
              HOURLY_VOLUME |-> SumOf({ r \in rows : key(r) = keys[i] }, "volume") ] ]

\* The body of the first loop over count_data: counts is an insertion-ordered
\* dict of dicts, kept as [order: the dates in insertion order,
\* by: date -> slot -> volume].
ReshapeRow(counts, row) ==
    LET d == row.COUNT_DATE
        \* if not counts.get(d): counts[d] = {}
        fresh == d \notin DOMAIN counts.by \/ DOMAIN counts.by[d] = {}
        order == IF d \in Range(counts.order) THEN counts.order
                 ELSE Append(counts.order, d)
        old == IF fresh THEN << >> ELSE counts.by[d]
        hit == { am_pm_map[i][2] : i \in { j \in DOMAIN am_pm_map :
                                            row.HOUR = am_pm_map[j][1] } }
        new == [ slot \in DOMAIN old \cup hit |->
                   IF slot \in hit THEN row.HOURLY_VOLUME ELSE old[slot] ]
    IN  [ order |-> order,
          by |-> [ x \in DOMAIN counts.by \cup {d} |->
                     IF x = d THEN new ELSE counts.by[x] ] ]

RECURSIVE ReshapeRange(_, _, _, _)
\* for row in count_data, over count_data[lo..hi] (split in halves like
\* DictOfRange).
ReshapeRange(count_data, lo, hi, counts) ==
    IF lo > hi THEN counts
    ELSE IF lo = hi THEN ReshapeRow(counts, count_data[lo])
    ELSE LET mid == (lo + hi) \div 2
             left == ReshapeRange(count_data, lo, mid, counts)
         IN  IF left = left THEN ReshapeRange(count_data, mid + 1, hi, left) ELSE left

RECURSIVE SumRange(_, _, _, _, _)
\* for k2, v2 in count.items(): total += v2, over the keys[lo..hi] of count.
SumRange(count, keys, lo, hi, total) ==
    IF lo > hi THEN total
    ELSE IF lo = hi THEN total + count[keys[lo]]
    ELSE LET mid == (lo + hi) \div 2
             left == SumRange(count, keys, lo, mid, total)
         IN  IF left = left THEN SumRange(count, keys, mid + 1, hi, left) ELSE left

\* total = 0; for k2, v2 in count.items(): total += v2
SumValues(count) ==
    LET keys == SelectSeq([ i \in DOMAIN am_pm_map |-> am_pm_map[i][2] ],
                          LAMBDA k : k \in DOMAIN count)
    IN  SumRange(count, keys, 1, Len(keys), 0)

\* The day's total summed whatever the number of slots.
DayTotal_always(count) == Some(SumValues(count))

\* The second loop: the day's total, None unless the day has 24 slots.
DayTotal(count) ==
    IF Cardinality(DOMAIN count) # FullDaySlots THEN None ELSE Some(SumValues(count))

\* NonNormalHourlyCount(date=k, **v): unset hour fields default to None.
NonNormalHourlyCount(date, count) ==
    [ date  |-> date,
      slots |-> [ f \in NonNormalHourlyCountFields |->
                    IF f \in DOMAIN count THEN Some(count[f]) ELSE None ],
      total |-> DayTotal(count) ]

\* From the fetched rows to the list of per-day records (lines 138-168).
reshape(count_data) ==
    LET counts == ReshapeRange(count_data, 1, Len(count_data), [order |-> << >>, by |-> << >>])
    IN  [ i \in 1..Len(counts.order) |->
            NonNormalHourlyCount(counts.order[i], counts.by[counts.order[i]]) ]

\* non_normal_volume.get_hourly_volume
non_normal_get_hourly_volume(num, include_suppressed) ==
    LET md == get_metadata(num)
    IN  IF md.exc # "ok" THEN md
        ELSE
        LET metadata == md.val
            sub_type == metadata.sub_type
        IN  IF sub_type \in (BicycleCountKind \cup PedestrianCountKind \cup VehicleCountKind)
            THEN IF Interrupted(<< tc_table_of(sub_type), "tc_countdate" >>)
                 THEN Raise("DatabaseError", md.queries
                              \o DatabaseError(<< tc_table_of(sub_type), "tc_countdate" >>).queries)
                 ELSE
                 LET tc_table == tc_table_of(sub_type)
                     all == reshape(NonNormalQuery(tc_table, num))
                     suppressed_dates == get_suppressed_dates(num)
                     counts ==
                         IF ~include_suppressed
                         THEN SelectSeq(all,
                                  LAMBDA c : c.date \notin Range(suppressed_dates))
                         ELSE all
                 IN  Ok([ metadata         |-> metadata,
                          static_pdf       |-> None,
                          suppressed_dates |-> suppressed_dates,
                          counts           |-> counts ],
                        md.queries \o Connection(<< tc_table, "tc_countdate" >>))
            ELSE IF sub_type \in NotInDatabaseCountKind
            THEN Ok([ metadata         |-> metadata,
                      static_pdf       |-> Some(static_pdf_url(sub_type, metadata.RECORDNUM)),
                      suppressed_dates |-> << >>,
                      counts           |-> << >> ],
                    md.queries \o Connection(<< >>))
            ELSE Raise("UnboundLocalError", md.queries \o Connection(<< >>))

(***************************************************************************)
(* classed.py                                                              *)
(***************************************************************************)
\* A select list that reports the two columns under each other's alias.
ClassSelect_swapped ==
    << <<"total", "TOTAL">>,
       <<"bikes", "MOTORCYCLES">>,
       <<"unclassified", "PASSENGER_CARS">>,
       <<"ax2_long", "OTHER_FOUR_TIRE_SINGLE_UNIT_VEHICLES">>,
       <<"buses", "BUSES">>,
       <<"ax2_6_tire", "TWO_AXLE_SIX_TIRE_SINGLE_UNIT_TRUCKS">>,
       <<"ax3_single", "THREE_AXLE_SINGLE_UNIT_TRUCKS">>,
       <<"ax4_single", "FOUR_OR_MORE_AXLE_SINGLE_UNIT_TRUCKS">>,
       <<"lt_5_ax_double", "FOUR_OR_FEWER_AXLE_SINGLE_TRAILER_TRUCKS">>,
       <<"ax5_double", "FIVE_AXLE_SINGLE_TRAILER_TRUCKS">>,
       <<"gt_5_ax_double", "SIX_OR_MORE_AXLE_SINGLE_TRAILER_TRUCKS">>,
       <<"lt_6_ax_multi", "FIVE_OR_FEWER_AXLE_MULTI_TRAILER_TRUCKS">>,
       <<"ax6_multi", "SIX_AXLE_MULTI_TRAILER_TRUCKS">>,
       <<"gt_6_ax_multi", "SEVEN_OR_MORE_AXLE_MULTI_TRAILER_TRUCKS">>,
       <<"cars_and_tlrs", "UNCLASSIFIED_VEHICLE">> >>

\* The select list of the classification query: <<column summed, alias>>.
ClassSelect ==
    << <<"total", "TOTAL">>,
       <<"bikes", "MOTORCYCLES">>,
       <<"cars_and_tlrs", "PASSENGER_CARS">>,
       <<"ax2_long", "OTHER_FOUR_TIRE_SINGLE_UNIT_VEHICLES">>,
       <<"buses", "BUSES">>,
       <<"ax2_6_tire", "TWO_AXLE_SIX_TIRE_SINGLE_UNIT_TRUCKS">>,
       <<"ax3_single", "THREE_AXLE_SINGLE_UNIT_TRUCKS">>,
       <<"ax4_single", "FOUR_OR_MORE_AXLE_SINGLE_UNIT_TRUCKS">>,
       <<"lt_5_ax_double", "FOUR_OR_FEWER_AXLE_SINGLE_TRAILER_TRUCKS">>,
       <<"ax5_double", "FIVE_AXLE_SINGLE_TRAILER_TRUCKS">>,
       <<"gt_5_ax_double", "SIX_OR_MORE_AXLE_SINGLE_TRAILER_TRUCKS">>,
       <<"lt_6_ax_multi", "FIVE_OR_FEWER_AXLE_MULTI_TRAILER_TRUCKS">>,
       <<"ax6_multi", "SIX_AXLE_MULTI_TRAILER_TRUCKS">>,
       <<"gt_6_ax_multi", "SEVEN_OR_MORE_AXLE_MULTI_TRAILER_TRUCKS">>,
       <<"unclassified", "UNCLASSIFIED_VEHICLE">> >>

ClassColumns == { ClassSelect[i][1] : i \in DOMAIN ClassSelect }

ClassAliases == { ClassSelect[i][2] : i \in DOMAIN ClassSelect }

\* The column a result field of the classification query sums.
SummedColumn ==
    [ alias \in ClassAliases |->
        ClassSelect[CHOOSE i \in DOMAIN ClassSelect : ClassSelect[i][2] = alias][1] ]

\* A query that reports the passenger cars net of the unclassified vehicles.
HourlyClassQuery_net(num) ==
    LET rows == { r \in db.tc_clacount_new : r.recordnum = num }
        keys == SortTs({ TruncHH24(r.countdatetime) : r \in rows })
    IN  [ i \in 1..Len(keys) |->
            LET group == { r \in rows : TruncHH24(r.countdatetime) = keys[i] }
            IN  [ f \in ClassAliases \cup {"DATETIME"} |->
                    IF f = "DATETIME" THEN keys[i]
                    ELSE IF f = "PASSENGER_CARS"
                    THEN SumOf(group, "cars_and_tlrs") - SumOf(group, "unclassified")
                    ELSE SumOf(group, SummedColumn[f]) ] ]

\* select TRUNC(countdatetime,'HH24') as datetime, sum(..) as .., ... from
\* tc_clacount_new where recordnum = :num group by ... order by ...
HourlyClassQuery(num) ==
    LET rows == { r \in db.tc_clacount_new : r.recordnum = num }
        keys == SortTs({ TruncHH24(r.countdatetime) : r \in rows })
    IN  [ i \in 1..Len(keys) |->
            LET group == { r \in rows : TruncHH24(r.countdatetime) = keys[i] }
            IN  [ f \in ClassAliases \cup {"DATETIME"} |->
                    IF f = "DATETIME" THEN keys[i]
                    ELSE SumOf(group, SummedColumn[f]) ] ]

\* classed.get_hourly_class
get_hourly_class(num, include_suppressed) ==
    LET md == get_metadata(num)
    IN  IF md.exc # "ok" THEN md
        ELSE
        IF Interrupted(<< "tc_clacount_new", "tc_countdate" >>)
        THEN Raise("DatabaseError", md.queries
                     \o DatabaseError(<< "tc_clacount_new", "tc_countdate" >>).queries)
        ELSE
        LET metadata == md.val
            fetched == HourlyClassQuery(num)
            suppressed_dates == get_suppressed_dates(num)
            count_data ==
                IF ~include_suppressed
                THEN SelectSeq(fetched,
                         LAMBDA count : DateOf(count.DATETIME) \notin Range(suppressed_dates))
                ELSE fetched
        IN  Ok([ metadata         |-> metadata,
                 static_pdf       |-> None,
                 suppressed_dates |-> suppressed_dates,
                 counts           |-> count_data ],
               md.queries \o Connection(<< "tc_clacount_new", "tc_countdate" >>))

(***************************************************************************)
(* The JSON request handlers.  last holds the request, the response        *)
(* (status and body), whether the handler logged an error, and the tables  *)
(* queried while handling it, in order.                                    *)
(***************************************************************************)
Idle ==
    [ endpoint |-> "idle", num |-> 0, include_suppressed |-> FALSE, status |-> 0,
      body |-> None, logged |-> FALSE, queries |-> << >> ]

Served(endpoint, num, include_suppressed, resp, queries) ==
    [ endpoint |-> endpoint, num |-> num, include_suppressed |-> include_suppressed,
      status |-> resp.status, body |-> resp.body, logged |-> resp.logged,
      queries |-> queries ]

\* The response is sent; the server is ready for the next request (in these
\* specifications requests are handled one at a time).
Respond ==
    /\ last # Idle
    /\ last' = Idle
    /\ UNCHANGED <<db, files, now, entries, dirs, writing>>

\* The rows of a result set whose statement has no ORDER BY: the database
\* may return them in any order.
AnyOrder(S) == { seq \in [1..Cardinality(S) -> S] : Range(seq) = S }

\* order by recordnum desc
RECURSIVE Descending(_)
Descending(S) ==
    IF S = {} THEN << >>
    ELSE LET top == CHOOSE n \in S : \A m \in S : m <= n
         IN  << top >> \o Descending(S \ {top})

\* The members of AllCountKinds: the bicycle and the pedestrian sub-kinds.
AllCountKinds == BicycleCountKind \cup PedestrianCountKind

\* GET /records: the record numbers of all counts, or of the counts of a
\* kind (count_type) or of a sub-kind (sub_type, which takes precedence).
\* The handler catches no exception.  A sub_type is bound to the statement
\* as a member of AllCountKinds, a plain Enum and not a str: the driver
\* either binds its value or rejects the type.
get_count_numbers(count_type, sub_type) ==
    LET q == << "tc_header" >>
        count_types ==
            IF sub_type # None THEN { sub_type[1] }
            ELSE IF count_type = Some(CountKind.vehicle) THEN VehicleCountKind
            ELSE IF count_type = Some(CountKind.bicycle) THEN BicycleCountKind
            ELSE IF count_type = Some(CountKind.pedestrian) THEN PedestrianCountKind
            ELSE NotInDatabaseCountKind
        answer(res) == Served("records", 0, FALSE,
                              [status |-> 200, body |-> res, logged |-> FALSE], Connection(q))
    IN  /\ last = Idle
        /\ IF Interrupted(q)
           THEN last' = Served("records", 0, FALSE, Unhandled("DatabaseError"),
                               DatabaseError(q).queries)
           ELSE IF count_type = None /\ sub_type = None
           THEN \E res \in AnyOrder({ h.RECORDNUM : h \in db.tc_header }) : last' = answer(res)
           ELSE \/ last' = answer(Descending({ h.RECORDNUM : h \in { r \in db.tc_header :
                                                                      r.TYPE \in count_types } }))
                \/ /\ sub_type # None
                   /\ last' = Served("records", 0, FALSE, Unhandled("NotSupportedError"),
                                      Connection(<< >>))
        /\ UNCHANGED <<db, files, now, entries, dirs, writing>>

\* GET /records/{num}, with a handler that deletes the header row it read.
get_metadata_json_deleting(num) ==
    LET res == get_metadata(num)
    IN  /\ last = Idle
        /\ last' = Served("metadata", num, FALSE, JsonResponse(res), res.queries)
        /\ db' = [db EXCEPT !.tc_header = { h \in @ : h.RECORDNUM # num }]
        /\ UNCHANGED <<files, now, entries, dirs, writing>>

\* GET /records/{num}
get_metadata_json(num) ==
    LET res == get_metadata(num)
    IN  /\ last = Idle
        /\ last' = Served("metadata", num, FALSE, JsonResponse(res), res.queries)
        /\ UNCHANGED <<db, files, now, entries, dirs, writing>>

\* GET /volume/hourly/{num}
get_hourly_volume_json(num, include_suppressed) ==
    LET res == get_hourly_volume(num, include_suppressed)
    IN  /\ last = Idle
        /\ last' = Served("volume", num, include_suppressed, JsonResponse(res), res.queries)
        /\ UNCHANGED <<db, files, now, entries, dirs, writing>>

\* GET /volume/hourly/non-normal/{num}
non_normal_get_hourly_volume_json(num, include_suppressed) ==
    LET res == non_normal_get_hourly_volume(num, include_suppressed)
    IN  /\ last = Idle
        /\ last' = Served("non_normal", num, include_suppressed, JsonResponse(res),
                          res.queries)
        /\ UNCHANGED <<db, files, now, entries, dirs, writing>>

\* GET /class/hourly/{num}
get_hourly_class_json(num, include_suppressed) ==
    LET res == get_hourly_class(num, include_suppressed)
    IN  /\ last = Idle
        /\ last' = Served("class", num, include_suppressed, JsonResponse(res), res.queries)
        /\ UNCHANGED <<db, files, now, entries, dirs, writing>>

(***************************************************************************)
(* main.py: the first version of the API, GET .../v1/record/{num}.  It     *)
(* reads the header table and the tables TC_BIKECOUNT, TC_PEDCOUNT,        *)
(* TC_VOLCOUNT and TC_WEATHER.                                             *)
(***************************************************************************)
\* main.VehicleCountKind also has "8 Day" and "Loop".
LegacyVehicleCountKind == VehicleCountKind \cup { <<"8", " ", "Day">>, <<"Loop">> }

LegacyKinds ==
    BicycleCountKind \cup PedestrianCountKind \cup LegacyVehicleCountKind
    \cup NotInDatabaseCountKind

\* f"https://www.dvrpc.org/asp/TrafficCountPDF/{sub_type_in_url}/{record.RECORDNUM}.PDF"
legacy_static_pdf(type, num) ==
    [ base |-> "https://www.dvrpc.org/asp/TrafficCountPDF/", sub_type_in_url |-> StripSpaces(type),
      num |-> num, ext |-> ".PDF" ]

\* SELECT TO_CHAR(COUNTDATE,'YYYY-MM-DD'), TO_CHAR(COUNTTIME,'HH24'), SUM(total)
\* FROM {tc_table} WHERE dvrpcnum = :num GROUP BY ... ORDER BY ...; the rows
\* have the shape of the rows of NonNormalQuery.
LegacyHourlyQuery(tc_table, num) ==
    LET rows == { r \in db[tc_table] : r.dvrpcnum = num }
        key(r) == << r.countdate, r.hour >>
        keys == SortDateHour({ key(r) : r \in rows })
    IN  [ i \in 1..Len(keys) |->
            [ COUNT_DATE    |-> keys[i][1],
              HOUR          |-> keys[i][2],
              HOURLY_VOLUME |-> SumOf({ r \in rows : key(r) = keys[i] }, "total") ] ]

\* SELECT * FROM DVRPCTC.TC_WEATHER WHERE COUNTDATE = ...; fetchone()
with_weather(count) ==
    LET weather_count == FetchOne({ r \in db.TC_WEATHER : r.COUNTDATE = count.date })
    IN  [ count   |-> count,
          weather |-> IF weather_count = None THEN None ELSE Some(weather_count[1].WEATHER) ]

\* The counts of a record: reshaped by date for a bicycle or pedestrian
\* count, the rows of TC_VOLCOUNT for a vehicle count (fetched without
\* ORDER BY; taken by date), none otherwise.
legacy_counts(type, num) ==
    IF type \in BicycleCountKind \cup PedestrianCountKind
    THEN LET tc_table == IF type \in PedestrianCountKind THEN "TC_PEDCOUNT"
                         ELSE "TC_BIKECOUNT"
             counts == reshape(LegacyHourlyQuery(tc_table, num))
         IN  [ queries |-> << tc_table >> \o [ i \in DOMAIN counts |-> "TC_WEATHER" ],
               counts  |-> [ i \in DOMAIN counts |-> with_weather(counts[i]) ] ]
    ELSE IF type \in LegacyVehicleCountKind
    THEN LET rows == { r \in db.TC_VOLCOUNT : r.RECORDNUM = num }
             dates == SelectSeq(DateLine, LAMBDA d : \E r \in rows : r.COUNTDATE = d)
             counts == [ i \in DOMAIN dates |->
                           [ date |-> dates[i],
                             slots |-> (CHOOSE r \in rows : r.COUNTDATE = dates[i]).slots,
                             total |-> (CHOOSE r \in rows : r.COUNTDATE = dates[i]).TOTALCOUNT ] ]
         IN  [ queries |-> << "TC_VOLCOUNT" >> \o [ i \in DOMAIN counts |-> "TC_WEATHER" ],
               counts  |-> [ i \in DOMAIN counts |-> with_weather(counts[i]) ] ]
    ELSE [ queries |-> << >>, counts |-> << >> ]

\* main.get_record: None for a missing header row; the STATUS of the row is
\* not looked at.
get_record(num) ==
    LET fetched == FetchOne({ r \in db.tc_header : r.RECORDNUM = num })
        record_data == fetched[1]
        q == << "tc_header" >>
    IN  IF Interrupted(q) THEN DatabaseError(q)
        ELSE IF fetched = None THEN Ok(None, Connection(q))
        \* record = Record(**record_data)
        ELSE IF ~Coercible(record_data.SPEEDLIMIT) \/ record_data.TYPE \notin LegacyKinds
        THEN Raise("ValidationError", Connection(q))
        ELSE
        LET mcd_data == FetchOne({ r \in db.tc_mcd : Some(r.dvrpc) = record_data.MCD })
            named == Truthy(record_data.MCD) /\ mcd_data # None
            type == record_data.TYPE
            got == legacy_counts(type, num)
            planned == (IF Truthy(record_data.MCD) THEN q \o << "tc_mcd" >> ELSE q)
                       \o got.queries
        IN  IF Interrupted(planned) THEN DatabaseError(planned)
            ELSE
            Ok(Some([ RECORDNUM    |-> record_data.RECORDNUM,
                      SOURCE       |-> normalize_source(record_data.SOURCE),
                      count_type   |-> IF type \in LegacyVehicleCountKind
                                       THEN Some(CountKind.vehicle) ELSE classify(type),
                      TYPE         |-> type,
                      MCD          |-> record_data.MCD,
                      municipality |-> IF named THEN Some(mcd_data[1].mcdname) ELSE None,
                      county       |-> IF named THEN Some(mcd_data[1].county) ELSE None,
                      state        |-> IF named THEN Some(mcd_data[1].state) ELSE None,
                      static_pdf   |-> IF type \in NotInDatabaseCountKind
                                       THEN Some(legacy_static_pdf(type, record_data.RECORDNUM))
                                       ELSE None,
                      counts       |-> got.counts ]),
               Connection(planned))

\* GET /api/traffic-counts/v1/record/{num}: the only except clause is for
\* ValidationError, and it does not log.
\* The legacy handler with the check of STATUS of the later version.
get_record_json_checking_status(num) ==
    LET res == get_record(num)
        resp == IF res.exc # "ok" THEN Unhandled(res.exc)
                ELSE IF res.val = None
                THEN [ status |-> 404, body |-> [message |-> "Record not found"],
                       logged |-> FALSE ]
                ELSE IF \E h \in db.tc_header : h.RECORDNUM = num /\ h.STATUS # "publish"
                THEN ErrorResponse("NotPublishedError")
                ELSE [ status |-> 200, body |-> res.val[1], logged |-> FALSE ]
    IN  /\ last = Idle
        /\ last' = Served("record", num, FALSE, resp, res.queries)
        /\ UNCHANGED <<db, files, now, entries, dirs, writing>>

get_record_json(num) ==
    LET res == get_record(num)
        resp == IF res.exc = "ValidationError"
                THEN [ status |-> 500, body |-> [message |-> "Unexpected data type found."],
                       logged |-> FALSE ]
                ELSE IF res.exc # "ok" THEN Unhandled(res.exc)
                ELSE IF res.val = None
                THEN [ status |-> 404, body |-> [message |-> "Record not found"],
                       logged |-> FALSE ]
                ELSE [ status |-> 200, body |-> res.val[1], logged |-> FALSE ]
    IN  /\ last = Idle
        /\ last' = Served("record", num, FALSE, resp, res.queries)
        /\ UNCHANGED <<db, files, now, entries, dirs, writing>>

(***************************************************************************)
(* The CSV cache.  files maps the path of every cached file to its         *)
(* modification time (a tick of the clock) and its content, the rows       *)
(* written by csv.writer; a cell is tagged with the type of its value.     *)
(***************************************************************************)
\* datetime.date.fromtimestamp(seconds) and datetime.date(): the file system
\* clock and the database clock are taken to be in the same time zone.
DateOfTick(t) == t \div TicksPerDay

StrCell(s) == [str |-> s]

IntCell(n) == [int |-> n]

LabelCell(tokens) == [label |-> tokens]

DateCell(d) == [date |-> d]

DatetimeCell(ts) == [datetime |-> ts]

\* csv.writer writes None as the empty string.
OptStr(opt) == IF opt = None THEN StrCell("") ELSE StrCell(opt[1])

OptInt(opt) == IF opt = None THEN StrCell("") ELSE IntCell(opt[1])

\* writer.writerow("")
EmptyRow == << >>

\* The fields of Metadata the model keeps, in declaration order, with the
\* name model_dump(by_alias=True) gives each.
MetadataFields ==
    << <<"RECORDNUM", "record_num">>, <<"SOURCE", "source">>,
       <<"count_type", "count_type">>, <<"sub_type", "sub_type">>, <<"MCD", "mcd">>,
       <<"state", "state">>, <<"county", "county">>, <<"municipality", "municipality">> >>

\* writer.writerow(record.metadata.model_dump(by_alias=True))
metadata_names_row == [ i \in DOMAIN MetadataFields |-> StrCell(MetadataFields[i][2]) ]

\* writer.writerow([v for k, v in record.metadata])
metadata_values_row(metadata) ==
    [ i \in DOMAIN MetadataFields |->
        LET f == MetadataFields[i][1]
        IN  IF f = "RECORDNUM" THEN IntCell(metadata.RECORDNUM)
            ELSE IF f = "sub_type" THEN LabelCell(metadata.sub_type)
            ELSE OptStr(metadata[f]) ]

\* A create function that leaves the suppressed dates out of the file.
suppressed_rows_skipped(suppressed_dates) == << >>

\* for date in record.suppressed_dates: writer.writerow([date])
suppressed_rows(suppressed_dates) ==
    [ i \in DOMAIN suppressed_dates |-> << DateCell(suppressed_dates[i]) >> ]

\* open(csv_path, "w") ... close: the file holds the rows written, and its
\* modification time is the time of the write.
WriteFile(csv_path, rows) ==
    [ path \in DOMAIN files \cup {csv_path} |->
        IF path = csv_path THEN [mtime |-> now, content |-> rows] ELSE files[path] ]

Created(rows, csv_path, q) == [exc |-> "ok", files |-> WriteFile(csv_path, rows), queries |-> q]

\* volume.create_hourly_csv
create_hourly_csv(csv_path, num, include_suppressed) ==
    LET res == get_hourly_volume(num, include_suppressed)
        record == res.val
    IN  IF res.exc # "ok" THEN [exc |-> res.exc, files |-> files, queries |-> res.queries]
        ELSE Created(
               << metadata_names_row, metadata_values_row(record.metadata), EmptyRow,
                  << StrCell(IF include_suppressed THEN "suppressed dates (included below):"
                         ELSE "suppressed dates (not included below):") >> >>
               \o suppressed_rows(record.suppressed_dates)
               \o << EmptyRow, << StrCell("datetime"), StrCell("volume") >> >>
               \o [ i \in DOMAIN record.counts |->
                      << DatetimeCell(record.counts[i].k), IntCell(record.counts[i].v) >> ],
               csv_path, res.queries)

\* The rows both other create functions write before record.counts[0].
csv_head(record) ==
    << metadata_names_row, metadata_values_row(record.metadata), EmptyRow,
       << StrCell("suppressed_dates:") >> >>
    \o suppressed_rows(record.suppressed_dates)
    \o << EmptyRow >>

\* record.counts[0] raises IndexError on an empty list, after the file was
\* opened for writing: the rows written so far stay in the file.
IndexErrorAfter(rows, csv_path, q) ==
    [exc |-> "IndexError", files |-> WriteFile(csv_path, rows), queries |-> q]

\* The field names of NonNormalHourlyCount, in declaration order.
NonNormalColumns ==
    << "date" >> \o [ i \in DOMAIN am_pm_map |-> am_pm_map[i][2] ] \o << "total" >>

\* non_normal_volume.create_hourly_nonnormal_csv
create_hourly_nonnormal_csv(csv_path, num, include_suppressed) ==
    LET res == non_normal_get_hourly_volume(num, include_suppressed)
        record == res.val
        values(count) ==
            [ i \in DOMAIN NonNormalColumns |->
                LET f == NonNormalColumns[i]
                IN  IF f = "date" THEN DateCell(count.date)
                    ELSE IF f = "total" THEN OptInt(count.total)
                    ELSE OptInt(count.slots[f]) ]
    IN  IF res.exc # "ok" THEN [exc |-> res.exc, files |-> files, queries |-> res.queries]
        ELSE IF record.counts = << >>
        THEN IndexErrorAfter(csv_head(record), csv_path, res.queries)
        ELSE Created(
               csv_head(record)
               \o << [ i \in DOMAIN NonNormalColumns |-> StrCell(NonNormalColumns[i]) ] >>
               \o [ i \in DOMAIN record.counts |-> values(record.counts[i]) ],
               csv_path, res.queries)

\* The fields of HourlyClass in declaration order, with the name the alias
\* generator (field_name.lower()) gives each.
HourlyClassFields ==
    << <<"DATETIME", "datetime">>, <<"TOTAL", "total">>, <<"MOTORCYCLES", "motorcycles">>,
       <<"PASSENGER_CARS", "passenger_cars">>,
       <<"OTHER_FOUR_TIRE_SINGLE_UNIT_VEHICLES", "other_four_tire_single_unit_vehicles">>,
       <<"BUSES", "buses">>,
       <<"TWO_AXLE_SIX_TIRE_SINGLE_UNIT_TRUCKS", "two_axle_six_tire_single_unit_trucks">>,
       <<"THREE_AXLE_SINGLE_UNIT_TRUCKS", "three_axle_single_unit_trucks">>,
       <<"FOUR_OR_MORE_AXLE_SINGLE_UNIT_TRUCKS", "four_or_more_axle_single_unit_trucks">>,
       <<"FOUR_OR_FEWER_AXLE_SINGLE_TRAILER_TRUCKS",
         "four_or_fewer_axle_single_trailer_trucks">>,
       <<"FIVE_AXLE_SINGLE_TRAILER_TRUCKS", "five_axle_single_trailer_trucks">>,
       <<"SIX_OR_MORE_AXLE_SINGLE_TRAILER_TRUCKS", "six_or_more_axle_single_trailer_trucks">>,
       <<"FIVE_OR_FEWER_AXLE_MULTI_TRAILER_TRUCKS",
         "five_or_fewer_axle_multi_trailer_trucks">>,
       <<"SIX_AXLE_MULTI_TRAILER_TRUCKS", "six_axle_multi_trailer_trucks">>,
       <<"SEVEN_OR_MORE_AXLE_MULTI_TRAILER_TRUCKS",
         "seven_or_more_axle_multi_trailer_trucks">>,
       <<"UNCLASSIFIED_VEHICLE", "unclassified_vehicle">> >>

\* classed.create_hourly_class_csv
create_hourly_class_csv(csv_path, num, include_suppressed) ==
    LET res == get_hourly_class(num, include_suppressed)
        record == res.val
        values(count) ==
            [ i \in DOMAIN HourlyClassFields |->
                LET f == HourlyClassFields[i][1]
                IN  IF f = "DATETIME" THEN DatetimeCell(count.DATETIME) ELSE IntCell(count[f]) ]
        note == [ i \in 1..16 |->
                    IF i <= 15 THEN StrCell("")
                    ELSE StrCell("Note: Unclassified vehicles are included in the 'passenger_cars' count.") ]
    IN  IF res.exc # "ok" THEN [exc |-> res.exc, files |-> files, queries |-> res.queries]
        ELSE IF record.counts = << >>
        THEN IndexErrorAfter(csv_head(record), csv_path, res.queries)
        ELSE Created(
               csv_head(record)
               \o << [ i \in DOMAIN HourlyClassFields |-> StrCell(HourlyClassFields[i][2]) ] >>
               \o [ i \in DOMAIN record.counts |-> values(record.counts[i]) ]
               \o << EmptyRow, note >>,
               csv_path, res.queries)

\* The cache directories of the three CSV handlers and their parent.
CsvRoot == "csv"

CsvDirs == { CsvRoot, "csv/volume", "csv/non_normal_volume", "csv/class" }

Parent(dir) == CsvRoot

\* Path(f"csv/<dir>/{num}<suffix>.csv")
CsvPath(dir, num, suffix) == [dir |-> dir, num |-> num, suffix |-> suffix, ext |-> ".csv"]

\* FileResponse(csv_file)
FileResponse(file) == [status |-> 200, body |-> file.content, logged |-> FALSE]

\* if csv_created_date <= aadv_created_date
is_older_or_same(csv_created_date, aadv_created_date) ==
    csv_created_date <= aadv_created_date

\* if csv_created_date < aadv_created_date
is_older(csv_created_date, aadv_created_date) == csv_created_date < aadv_created_date

\* select date_calculated from aadv where recordnum = :num
\* order by date_calculated desc; fetchone()
LatestAadv(num) ==
    LET rows == { r \in db.aadv : r.recordnum = num }
    IN  FetchOne({ r \in rows : \A x \in rows : x.date_calculated <= r.date_calculated })

\* The body the three CSV handlers share, from csv_file.exists() to the
\* return: the files after the request, the response, the tables queried;
\* made is the outcome of the handler's create function, were it called.
CsvHandler(csv_file, made, num) ==
    LET recreate(q) ==
                [ files   |-> made.files,
                  queries |-> q \o made.queries,
                  resp    |-> IF made.exc = "ok" THEN FileResponse(made.files[csv_file])
                              ELSE ErrorResponse(made.exc) ]
    IN  IF csv_file \in DOMAIN files
        THEN LET csv_created_date == DateOfTick(files[csv_file].mtime)
                 fetched == LatestAadv(num)
             IN  \* cursor.fetchone()[0] on None raises TypeError: except Exception
                 IF Interrupted(<< "aadv" >>) \/ fetched = None
                 THEN recreate(Connection(<< "aadv" >>))
                 ELSE IF is_older(csv_created_date, DateOfTick(fetched[1].date_calculated))
                 THEN recreate(Connection(<< "aadv" >>))
                 ELSE [ files |-> files, queries |-> Connection(<< "aadv" >>),
                        resp |-> FileResponse(files[csv_file]) ]
        ELSE recreate(<< >>)

\* Path(dir).mkdir() inside try ... except FileExistsError: pass.  mkdir
\* creates one directory: without its parent it raises FileNotFoundError.
mkdir(dir) ==
    IF dir \in dirs THEN "FileExistsError"
    ELSE IF Parent(dir) \notin dirs THEN "FileNotFoundError"
    ELSE "ok"

\* The effects of a CSV request: the directory is prepared, then the body of
\* the handler runs.  An exception of mkdir other than FileExistsError is
\* raised out of the handler.
CsvServed(endpoint, num, include_suppressed, dir, out) ==
    /\ last = Idle
    /\ IF mkdir(dir) \in {"ok", "FileExistsError"}
       THEN /\ dirs' = dirs \cup {dir}
            /\ last' = Served(endpoint, num, include_suppressed, out.resp, out.queries)
            /\ files' = out.files
       ELSE /\ last' = Served(endpoint, num, include_suppressed, Unhandled(mkdir(dir)), << >>)
            /\ UNCHANGED <<files, dirs>>
    /\ UNCHANGED <<db, now, entries, writing>>

\* GET /volume/hourly/csv/{num}
get_hourly_volume_csv(num, include_suppressed) ==
    LET csv_file == CsvPath("csv/volume", num,
                            IF include_suppressed THEN "_suppressed_included"
                            ELSE "_suppressed_excluded")
    IN  CsvServed("volume_csv", num, include_suppressed, "csv/volume",
                  CsvHandler(csv_file, create_hourly_csv(csv_file, num, include_suppressed),
                             num))

\* GET /volume/hourly/non-normal/csv/{num}
non_normal_get_hourly_volume_csv(num, include_suppressed) ==
    LET csv_file == CsvPath("csv/non_normal_volume", num, "")
    IN  CsvServed("non_normal_csv", num, include_suppressed, "csv/non_normal_volume",
                  CsvHandler(csv_file,
                             create_hourly_nonnormal_csv(csv_file, num, include_suppressed),
                             num))

\* GET /class/hourly/csv/{num}
get_hourly_class_csv(num, include_suppressed) ==
    LET csv_file == CsvPath("csv/class", num, "")
    IN  CsvServed("class_csv", num, include_suppressed, "csv/class",
                  CsvHandler(csv_file,
                             create_hourly_class_csv(csv_file, num, include_suppressed),
                             num))

(***************************************************************************)
(* The handlers are plain functions, which the framework runs on a pool of *)
(* threads: a request can be served while another one is inside its create *)
(* function.  writing maps the path of every file open for writing to the  *)
(* request that opened it and the rows it has still to write.  The steps   *)
(* of such a request are open_csv (the handler up to open(csv_path, "w"),  *)
(* which truncates the file), writerow, and close_csv (the end of the with *)
(* block and the return of the handler).                                   *)
(***************************************************************************)
\* Requests inside a create function at one time.
MaxWriters == 1

\* The handler calls its create function: the file is missing, or the
\* staleness check raised, or the file is older than the latest AADV.
Regenerates(csv_file, num) ==
    IF csv_file \notin DOMAIN files THEN TRUE
    ELSE IF LatestAadv(num) = None THEN TRUE
    ELSE is_older(DateOfTick(files[csv_file].mtime),
                  DateOfTick(LatestAadv(num)[1].date_calculated))

\* with open(csv_path, "w", newline="") as f
open_csv(endpoint, num, include_suppressed, dir, csv_file, made) ==
    /\ mkdir(dir) = "FileExistsError"
    /\ Regenerates(csv_file, num)
    /\ made.exc = "ok"
    /\ csv_file \notin DOMAIN writing
    /\ Cardinality(DOMAIN writing) < MaxWriters
    /\ files' = WriteFile(csv_file, << >>)
    /\ writing' = [ path \in DOMAIN writing \cup {csv_file} |->
                      IF path = csv_file
                      THEN [ endpoint |-> endpoint, num |-> num,
                             include_suppressed |-> include_suppressed,
                             rows |-> made.files[csv_file].content,
                             queries |-> made.queries ]
                      ELSE writing[path] ]
    /\ UNCHANGED <<db, now, last, entries, dirs>>

\* writer.writerow(...): the next row reaches the file.
writerow(csv_file) ==
    /\ csv_file \in DOMAIN writing
    /\ Len(writing[csv_file].rows) > 1
    /\ files' = [files EXCEPT ![csv_file] =
                    [mtime |-> now, content |-> Append(@.content, Head(writing[csv_file].rows))]]
    /\ writing' = [writing EXCEPT ![csv_file].rows = Tail(@)]
    /\ UNCHANGED <<db, now, last, entries, dirs>>

\* The last row is written, the file is closed, and the handler returns
\* FileResponse(csv_file).
close_csv(csv_file) ==
    /\ csv_file \in DOMAIN writing
    /\ last = Idle
    /\ files' = [files EXCEPT ![csv_file] =
                    [mtime |-> now, content |-> @.content \o writing[csv_file].rows]]
    /\ writing' = [ path \in DOMAIN writing \ {csv_file} |-> writing[path] ]
    /\ last' = Served(writing[csv_file].endpoint, writing[csv_file].num,
                      writing[csv_file].include_suppressed,
                      FileResponse(files'[csv_file]), writing[csv_file].queries)
    /\ UNCHANGED <<db, now, entries, dirs>>

\* A request that runs interleaved with the others.
CsvThread ==
    \/ \E num \in { h.RECORDNUM : h \in db.tc_header }, include_suppressed \in BOOLEAN :
          \/ LET csv_file == CsvPath("csv/volume", num,
                                     IF include_suppressed THEN "_suppressed_included"
                                     ELSE "_suppressed_excluded")
             IN  open_csv("volume_csv", num, include_suppressed, "csv/volume", csv_file,
                          create_hourly_csv(csv_file, num, include_suppressed))
          \/ LET csv_file == CsvPath("csv/non_normal_volume", num, "")
             IN  open_csv("non_normal_csv", num, include_suppressed, "csv/non_normal_volume",
                          csv_file,
                          create_hourly_nonnormal_csv(csv_file, num, include_suppressed))
          \/ LET csv_file == CsvPath("csv/class", num, "")
             IN  open_csv("class_csv", num, include_suppressed, "csv/class", csv_file,
                          create_hourly_class_csv(csv_file, num, include_suppressed))
    \/ \E csv_file \in DOMAIN writing : writerow(csv_file) \/ close_csv(csv_file)

(***************************************************************************)
(* The external data-entry process.  Counts are uploaded as whole device   *)
(* files (batches of observations) into the raw table of the count's       *)
(* kind; a classification count is also stored by class.                   *)
(***************************************************************************)
Obs(d, h, m, v) == [countdatetime |-> Ts(d, h, m), volume |-> v]

\* 08:00, 08:30 and 09:00 of day 1.
Example == { Obs(1, 8, 0, 10), Obs(1, 8, 30, 5), Obs(1, 9, 0, 20) }

\* Across midnight between day 1 and day 2.
Midnight == { Obs(1, 23, 30, 2), Obs(2, 0, 30, 4) }

\* Hours 00 to 22 of day 1, then the 24 hours of day 2, 08:30 twice an hour.
TwoDays ==
    { Obs(1, h, 0, 1) : h \in 0..22 } \cup { Obs(2, h, 0, h + 1) : h \in 0..23 }
    \cup { Obs(2, 8, 30, 5) }

Batches == { Example, Midnight, TwoDays }

\* The device files of a table: the long one is a bicycle or pedestrian count.
BatchesOf(t) ==
    IF t \in {"tc_bikecount_new", "tc_pedcount_new"} THEN Batches ELSE { Example, Midnight }

VolumeRow(num, o) ==
    [recordnum |-> num, countdatetime |-> o.countdatetime, volume |-> o.volume]

\* A row of the class table, as the devices store it: one motorcycle and the
\* passenger cars, which include the unclassified vehicles (the NOTE of
\* HourlyClass); total counts every vehicle once.  The 09:00 observation of
\* Example has 10 passenger cars, 4 of them unclassified.
ClassRow(num, o) ==
    [ c \in ClassColumns \cup {"recordnum", "countdatetime"} |->
        CASE c = "recordnum" -> num
          [] c = "countdatetime" -> o.countdatetime
          [] c = "total" -> 1 + (IF o.volume = 20 THEN 10 ELSE o.volume)
          [] c = "bikes" -> 1
          [] c = "cars_and_tlrs" -> IF o.volume = 20 THEN 10 ELSE o.volume
          [] c = "unclassified" -> IF o.volume = 20 THEN 4 ELSE IF o.volume = 5 THEN 3 ELSE 0
          [] OTHER -> 0 ]

\* The rows a device file becomes in each table, for each record.
DeviceFileRows ==
    [ t \in RawTables |-> [ num \in Nums |-> [ batch \in Batches |->
        IF t = "tc_clacount_new" THEN { ClassRow(num, o) : o \in batch }
        ELSE { VolumeRow(num, o) : o \in batch } ] ] ]

RowsOf(t, num, batch) == DeviceFileRows[t][num][batch]

\* The tables the data-entry process stores a count of the given TYPE in.
EntryTables(type) ==
    (IF type \in { <<"Bicycle", " ", "2">> } THEN {"tc_bikecount_new"} ELSE {})
    \cup (IF type \in { <<"Pedestrian", " ", "2">> } THEN {"tc_pedcount_new"} ELSE {})
    \cup (IF type \in { <<"Volume">>, <<"Class">> } THEN {"tc_volcount_new"} ELSE {})
    \cup (IF type = <<"Class">> THEN {"tc_clacount_new"} ELSE {})

UploadCounts(t, num, batch) ==
    /\ last = Idle
    /\ batch \in BatchesOf(t)
    /\ \E h \in db.tc_header : h.RECORDNUM = num /\ t \in EntryTables(h.TYPE)
    /\ entries < MaxEntries
    /\ entries' = entries + 1
    /\ RowsOf(t, num, batch) \cap db[t] = {}
    /\ db' = [db EXCEPT ![t] = @ \cup RowsOf(t, num, batch)]
    /\ UNCHANGED <<files, now, last, dirs, writing>>

\* A date of a count is flagged as a full ('Yes') or an incomplete ('No') day.
FlagDate(num, d, isfulldate) ==
    /\ last = Idle
    /\ \E h \in db.tc_header : h.RECORDNUM = num
    /\ entries < MaxEntries
    /\ entries' = entries + 1
    /\ db' = [db EXCEPT !.tc_countdate = @ \cup
                 { [recordnum |-> num, countdate |-> Ts(d, 0, 0), isfulldate |-> isfulldate] }]
    /\ db' # db
    /\ UNCHANGED <<files, now, last, dirs, writing>>

HeaderRow(num, status, type) ==
    [ RECORDNUM |-> num, STATUS |-> status, TYPE |-> type, SOURCE |-> Some("0"),
      MCD |-> Some("4210160000"), SPEEDLIMIT |-> DbNumber(35) ]

\* A header row whose SPEEDLIMIT is not a number.
UncoercibleHeaderRow(num, status, type) ==
    [ HeaderRow(num, status, type) EXCEPT !.SPEEDLIMIT = DbText("unposted") ]

\* A header row is created, or its status and type are edited.
PutHeader(num, status, type) ==
    /\ last = Idle
    /\ db' = [db EXCEPT !.tc_header =
                 { h \in @ : h.RECORDNUM # num } \cup { HeaderRow(num, status, type) }]
    /\ db' # db
    /\ UNCHANGED <<files, now, last, entries, dirs, writing>>

\* The SOURCE values the model's header rows take: null, the two codes, the
\* empty string and two other values.
SourcePool == { None, Some("0"), Some("-1"), Some(""), Some("1"), Some("DVRPC") }

\* The SOURCE of a header row is edited.
SetSource(num, source) ==
    /\ last = Idle
    /\ db' = [db EXCEPT !.tc_header =
                 { IF h.RECORDNUM = num THEN [h EXCEPT !.SOURCE = source] ELSE h : h \in @ }]
    /\ db' # db
    /\ UNCHANGED <<files, now, last, entries, dirs, writing>>

\* The recomputation of the record's AADV, stamped with the current time.
RecalculateAADV(num) ==
    /\ last = Idle
    /\ \E h \in db.tc_header : h.RECORDNUM = num
    /\ entries < MaxEntries
    /\ entries' = entries + 1
    /\ db' = [db EXCEPT !.aadv = @ \cup { [recordnum |-> num, date_calculated |-> now] }]
    /\ db' # db
    /\ UNCHANGED <<files, now, last, dirs, writing>>

\* Time passes.
Tick ==
    /\ last = Idle
    /\ now < MaxClock
    /\ now' = now + 1
    /\ UNCHANGED <<db, files, last, entries, dirs, writing>>

DeleteHeader(num) ==
    /\ last = Idle
    /\ \E h \in db.tc_header : h.RECORDNUM = num
    /\ db' = [db EXCEPT !.tc_header = { h \in @ : h.RECORDNUM # num }]
    /\ UNCHANGED <<files, now, last, entries, dirs, writing>>

\* The tables named become unavailable to queries (a revoked grant, a table
\* under maintenance), the others available.
Outage(tables) ==
    /\ last = Idle
    /\ db.failing # tables
    /\ db' = [db EXCEPT !.failing = tables]
    /\ UNCHANGED <<files, now, last, entries, dirs, writing>>

tc_mcd_rows ==
    { [dvrpc |-> "4210160000", mcdname |-> "Philadelphia City", county |-> "Philadelphia",
       state |-> "PA"] }

EmptyDb ==
    [ tc_header |-> {}, tc_mcd |-> tc_mcd_rows, tc_volcount_new |-> {},
      tc_bikecount_new |-> {}, tc_pedcount_new |-> {}, tc_clacount_new |-> {},
      tc_countdate |-> {}, aadv |-> {},
      TC_BIKECOUNT |-> {}, TC_PEDCOUNT |-> {}, TC_VOLCOUNT |-> {}, TC_WEATHER |-> {},
      failing |-> {} ]

(***************************************************************************)
(* Spec: the JSON endpoints over a database whose header rows change.      *)
(* Every raw table holds observations of both records, and day 1 of each   *)
(* record is flagged incomplete.                                           *)
(***************************************************************************)
SeedDb ==
    [ EmptyDb EXCEPT
        !.tc_volcount_new = RowsOf("tc_volcount_new", 1, Example)
                            \cup RowsOf("tc_volcount_new", 2, Midnight),
        !.tc_bikecount_new = RowsOf("tc_bikecount_new", 1, Midnight)
                             \cup RowsOf("tc_bikecount_new", 2, Example),
        !.tc_pedcount_new = RowsOf("tc_pedcount_new", 1, Example)
                            \cup RowsOf("tc_pedcount_new", 2, Example),
        !.tc_clacount_new = RowsOf("tc_clacount_new", 1, Example)
                            \cup RowsOf("tc_clacount_new", 2, Midnight),
        !.tc_countdate = { [recordnum |-> n, countdate |-> Ts(1, 0, 0), isfulldate |-> "No"]
                             : n \in Nums } ]

Init ==
    /\ db = SeedDb
    /\ files = << >>
    /\ now = 0
    /\ last = Idle
    /\ entries = 0
    /\ dirs = CsvDirs
    /\ writing = << >>

JsonRequest ==
    \E num \in Nums :
        \/ get_metadata_json(num)
        \/ \E include_suppressed \in BOOLEAN :
              \/ get_hourly_volume_json(num, include_suppressed)
              \/ non_normal_get_hourly_volume_json(num, include_suppressed)
              \/ get_hourly_class_json(num, include_suppressed)

HeaderEntry ==
    \E num \in Nums :
        \/ \E status \in StatusPool, type \in TypePool : PutHeader(num, status, type)
        \/ DeleteHeader(num)

Next == HeaderEntry \/ JsonRequest \/ Respond

Spec == Init /\ [][Next]_vars

(***************************************************************************)
(* SpecList: the list endpoint, with every combination of its filters,     *)
(* over a database whose header rows change.                               *)
(***************************************************************************)
ListRequest ==
    \E count_type \in {None} \cup { Some(CountKind[k]) : k \in DOMAIN CountKind },
       sub_type \in {None} \cup { Some(t) : t \in TypePool \cap AllCountKinds } :
        get_count_numbers(count_type, sub_type)

NextList == HeaderEntry \/ ListRequest \/ Respond

SpecList == Init /\ [][NextList]_vars

(***************************************************************************)
(* SpecAgg: the count endpoints over published in-database counts whose    *)
(* observations and flagged dates are entered while requests are served.   *)
(***************************************************************************)
InitAgg ==
    /\ \E type \in { <<"Bicycle", " ", "2">>, <<"Pedestrian", " ", "2">> } :
          db = [ EmptyDb EXCEPT !.tc_header =
                   { HeaderRow(1, "publish", type), HeaderRow(2, "publish", <<"Class">>) } ]
    /\ files = << >>
    /\ now = 0
    /\ last = Idle
    /\ entries = 0
    /\ dirs = CsvDirs
    /\ writing = << >>

CountsEntry ==
    \/ \E t \in RawTables, num \in Nums, batch \in Batches : UploadCounts(t, num, batch)
    \/ \E num \in Nums, d \in Dates, isfulldate \in {"Yes", "No"} :
          FlagDate(num, d, isfulldate)

CountsRequest ==
    \E num \in Nums, include_suppressed \in BOOLEAN :
        \/ get_hourly_volume_json(num, include_suppressed)
        \/ non_normal_get_hourly_volume_json(num, include_suppressed)
        \/ get_hourly_class_json(num, include_suppressed)

NextAgg == CountsEntry \/ CountsRequest \/ Respond

SpecAgg == InitAgg /\ [][NextAgg]_vars

(***************************************************************************)
(* SpecCsv: the CSV endpoints and their cache.  Record 1 is a published     *)
(* classification count with observations on the first date in the volume  *)
(* and class tables; record 2 does not exist.  Time passes, the AADV is     *)
(* recomputed, and the first date is flagged incomplete.                   *)
(***************************************************************************)
InitCsv ==
    /\ db = [ EmptyDb EXCEPT
                !.tc_header = { HeaderRow(1, "publish", <<"Class">>) },
                !.tc_volcount_new = RowsOf("tc_volcount_new", 1, Example),
                !.tc_clacount_new = RowsOf("tc_clacount_new", 1, Example) ]
    /\ files = << >>
    /\ now = 0
    /\ last = Idle
    /\ entries = 0
    /\ dirs = CsvDirs
    /\ writing = << >>

\* The clients ask for the records that GET /records lists.
CsvRequest ==
    \E num \in { h.RECORDNUM : h \in db.tc_header }, include_suppressed \in BOOLEAN :
        \/ get_hourly_volume_csv(num, include_suppressed)
        \/ non_normal_get_hourly_volume_csv(num, include_suppressed)
        \/ get_hourly_class_csv(num, include_suppressed)

CsvEnvironment ==
    \/ Tick
    \/ \E num \in Nums : RecalculateAADV(num)
    \/ \E num \in Nums : FlagDate(num, DateLine[1], "No")

NextCsv == CsvEnvironment \/ CsvRequest \/ Respond

SpecCsv == InitCsv /\ [][NextCsv]_vars

(***************************************************************************)
(* SpecCsvJson: the CSV and the JSON count endpoints over a database that  *)
(* does not change while they are served.  Record 1 has any header of the  *)
(* pools, observations across midnight in every raw table and its first    *)
(* date flagged incomplete; record 2 is missing, or is a published volume  *)
(* count without observations.  Both records have a computed AADV.         *)
(***************************************************************************)
InitCsvJson ==
    /\ \E status \in StatusPool, type \in TypePool,
          two \in SUBSET { HeaderRow(2, "publish", <<"Volume">>) } :
          db = [ EmptyDb EXCEPT
                   !.tc_header = { HeaderRow(1, status, type) } \cup two,
                   !.tc_volcount_new = RowsOf("tc_volcount_new", 1, Midnight),
                   !.tc_bikecount_new = RowsOf("tc_bikecount_new", 1, Midnight),
                   !.tc_pedcount_new = RowsOf("tc_pedcount_new", 1, Midnight),
                   !.tc_clacount_new = RowsOf("tc_clacount_new", 1, Midnight),
                   !.tc_countdate = { [recordnum |-> 1, countdate |-> Ts(1, 0, 0),
                                       isfulldate |-> "No"] },
                   !.aadv = { [recordnum |-> n, date_calculated |-> 0] : n \in Nums } ]
    /\ files = << >>
    /\ now = 0
    /\ last = Idle
    /\ entries = 0
    /\ dirs = CsvDirs
    /\ writing = << >>

\* The clients ask for any record number.
CsvAnyRequest ==
    \E num \in Nums, include_suppressed \in BOOLEAN :
        \/ get_hourly_volume_csv(num, include_suppressed)
        \/ non_normal_get_hourly_volume_csv(num, include_suppressed)
        \/ get_hourly_class_csv(num, include_suppressed)

NextCsvJson == CsvAnyRequest \/ CountsRequest \/ Respond

SpecCsvJson == InitCsvJson /\ [][NextCsvJson]_vars

(***************************************************************************)
(* SpecErr: every by-id endpoint, of both versions of the API, over a       *)
(* header row of record 1 that pydantic can or cannot coerce, on a server   *)
(* whose working directory has no csv directory yet, has it, or has it with *)
(* the directories of the three handlers.  Record 2 does not exist.         *)
(***************************************************************************)
InitErr ==
    /\ \E row \in { HeaderRow(1, status, type) : status \in StatusPool, type \in TypePool }
                    \cup { UncoercibleHeaderRow(1, status, type) :
                             status \in StatusPool, type \in TypePool } :
          db = [ EmptyDb EXCEPT
                   !.tc_header = { row },
                   !.tc_volcount_new = RowsOf("tc_volcount_new", 1, Midnight),
                   !.tc_bikecount_new = RowsOf("tc_bikecount_new", 1, Midnight),
                   !.tc_pedcount_new = RowsOf("tc_pedcount_new", 1, Midnight),
                   !.tc_clacount_new = RowsOf("tc_clacount_new", 1, Midnight),
                   !.aadv = { [recordnum |-> 1, date_calculated |-> 0] } ]
    /\ files = << >>
    /\ now = 0
    /\ last = Idle
    /\ entries = 0
    /\ dirs \in { {}, {CsvRoot}, CsvDirs }
    /\ writing = << >>

LegacyRequest == \E num \in Nums : get_record_json(num)

NextErr == JsonRequest \/ CsvAnyRequest \/ LegacyRequest \/ Respond

SpecErr == InitErr /\ [][NextErr]_vars

(***************************************************************************)
(* SpecRace: concurrent CSV requests for a published volume count with     *)
(* observations across midnight and a computed AADV.  A request either     *)
(* runs without interruption (CsvRequest) or in steps (CsvThread).         *)
(***************************************************************************)
InitRace ==
    /\ db = [ EmptyDb EXCEPT
                !.tc_header = { HeaderRow(1, "publish", <<"Volume">>) },
                !.tc_volcount_new = RowsOf("tc_volcount_new", 1, Midnight),
                !.tc_clacount_new = RowsOf("tc_clacount_new", 1, Midnight),
                !.tc_countdate = { [recordnum |-> 1, countdate |-> Ts(1, 0, 0),
                                    isfulldate |-> "No"] },
                !.aadv = { [recordnum |-> 1, date_calculated |-> 0] } ]
    /\ files = << >>
    /\ now = 0
    /\ last = Idle
    /\ entries = 0
    /\ dirs = CsvDirs
    /\ writing = << >>

NextRace == CsvThread \/ CsvRequest \/ Respond

SpecRace == InitRace /\ [][NextRace]_vars

(***************************************************************************)
(* SpecOps: every by-id endpoint over a volume count whose header row is   *)
(* edited or deleted between requests and whose tables can be unavailable, *)
(* one at a time.  Record 2 does not exist.                                *)
(***************************************************************************)
OutageTables ==
    { "tc_header", "tc_mcd", "tc_volcount_new", "tc_clacount_new", "tc_countdate", "aadv" }

InitOps ==
    /\ db = [ EmptyDb EXCEPT
                !.tc_header = { HeaderRow(1, "publish", <<"Volume">>) },
                !.tc_volcount_new = RowsOf("tc_volcount_new", 1, Midnight),
                !.tc_clacount_new = RowsOf("tc_clacount_new", 1, Midnight),
                !.tc_countdate = { [recordnum |-> 1, countdate |-> Ts(1, 0, 0),
                                    isfulldate |-> "No"] },
                !.aadv = { [recordnum |-> 1, date_calculated |-> 0] } ]
    /\ files = << >>
    /\ now = 0
    /\ last = Idle
    /\ entries = 0
    /\ dirs = CsvDirs
    /\ writing = << >>

HeaderChange ==
    \/ \E status \in StatusPool : PutHeader(1, status, <<"Volume">>)
    \/ DeleteHeader(1)

Outages ==
    \/ \E t \in OutageTables : Outage({t})
    \/ Outage({})

NextOps == HeaderChange \/ Outages \/ JsonRequest \/ CsvAnyRequest \/ LegacyRequest \/ Respond

SpecOps == InitOps /\ [][NextOps]_vars

(***************************************************************************)
(* SpecSource: the JSON endpoints of both versions of the API over header  *)
(* rows that change and a SOURCE of record 1 that is edited.               *)
(***************************************************************************)
NextSource ==
    \/ HeaderEntry
    \/ \E source \in SourcePool : SetSource(1, source)
    \/ JsonRequest
    \/ LegacyRequest
    \/ Respond

SpecSource == Init /\ [][NextSource]_vars

(***************************************************************************)
(* Properties.  They are stated on the response held in last and on the    *)
(* rows of db, from which the expected buckets are derived directly.       *)
(***************************************************************************)
ByIdEndpoints == { "metadata", "volume", "non_normal", "class" }

CountEndpoints == { "volume", "non_normal", "class" }

HeaderRows(num) == { h \in db.tc_header : h.RECORDNUM = num }

\* The raw table the request in last aggregates, for a record of an
\* in-database kind: the class endpoint reads the class table, the volume
\* endpoints the table of the record's kind.
AggregatedTable ==
    LET type == (CHOOSE h \in HeaderRows(last.num) : TRUE).TYPE
    IN  IF last.endpoint = "class" THEN "tc_clacount_new"
        ELSE IF type \in BicycleCountKind THEN "tc_bikecount_new"
        ELSE IF type \in PedestrianCountKind THEN "tc_pedcount_new"
        ELSE "tc_volcount_new"

\* The raw rows of the requested record in that table.
AggregatedRows == { r \in db[AggregatedTable] : r.recordnum = last.num }

\* The calendar dates flagged isfulldate = 'No' for the requested record.
SuppressedSet ==
    { r.countdate.date : r \in { x \in db.tc_countdate :
                                   x.recordnum = last.num /\ x.isfulldate = "No" } }

HourStart(ts) == Ts(ts.date, ts.hour, 0)

\* Key and calendar date of a bucket of the response in last.
BucketKey(b) ==
    IF last.endpoint = "volume" THEN b.k
    ELSE IF last.endpoint = "class" THEN b.DATETIME
    ELSE Ts(b.date, 0, 0)

BucketDate(b) == BucketKey(b).date

Before(a, b) ==
    \/ a.date < b.date
    \/ a.date = b.date /\ a.hour < b.hour
    \/ a.date = b.date /\ a.hour = b.hour /\ a.minute < b.minute

\* The request in last was answered with the envelope of a count endpoint.
CountsServed(endpoint) == last.endpoint = endpoint /\ last.status = 200

\* C1: a request to any by-id JSON endpoint for a record whose header row
\* exists with a STATUS other than "publish" is answered 403, and none of the
\* raw count tables was queried while handling it.
C1_NotPublishedIs403 ==
    (/\ last.endpoint \in ByIdEndpoints
     /\ \E h \in HeaderRows(last.num) : h.STATUS # "publish")
    => /\ last.status = 403
       /\ Range(last.queries) \cap RawTables = {}

C1_Witness ==
    /\ last.endpoint = "class"
    /\ \E h \in HeaderRows(last.num) : h.STATUS # "publish" /\ h.TYPE = <<"Class">>
    /\ db.tc_clacount_new # {}
    /\ last.status = 403

\* C2: for a record number without a header row, get_metadata raises
\* NotFoundError (no status is looked at: there is no row), and every by-id
\* JSON endpoint answers 404 with the body {"message": "Record not found."}.
C2_MissingIs404 ==
    /\ \A num \in Nums : HeaderRows(num) = {} => get_metadata(num).exc = "NotFoundError"
    /\ (last.endpoint \in ByIdEndpoints /\ HeaderRows(last.num) = {})
       => /\ last.status = 404
          /\ last.body = [message |-> "Record not found."]

C2_Witness ==
    /\ last.endpoint = "non_normal"
    /\ HeaderRows(last.num) = {}
    /\ last.status = 404

\* C3: in the hourly volume response every bucket is keyed by a timestamp
\* truncated to the hour and its value is the sum of the volumes of exactly
\* the record's raw rows of that date and hour; every raw row of a day that
\* is not filtered out is counted in the bucket of its own date and hour, so
\* the same hour of two dates makes two buckets.
C3_HourlySum ==
    CountsServed("volume") =>
        LET counts == last.body.counts
        IN  /\ \A i \in DOMAIN counts :
                 LET members == { r \in AggregatedRows :
                                    HourStart(r.countdatetime) = counts[i].k }
                 IN  /\ members # {}
                     /\ counts[i].v = SumOf(members, "volume")
            /\ \A r \in AggregatedRows :
                 (last.include_suppressed \/ r.countdatetime.date \notin SuppressedSet)
                 => \E i \in DOMAIN counts : counts[i].k = HourStart(r.countdatetime)

\* The rows 08:00 -> 10, 08:30 -> 5 and 09:00 -> 20 give 08:00 -> 15 and
\* 09:00 -> 20.
C3_Witness ==
    /\ CountsServed("volume")
    /\ { [countdatetime |-> r.countdatetime, volume |-> r.volume] : r \in AggregatedRows }
         = Example
    /\ last.body.counts = << [k |-> Ts(1, 8, 0), v |-> 15], [k |-> Ts(1, 9, 0), v |-> 20] >>

\* C4: the buckets of the hourly volume, hourly class and non-normal
\* responses are in strictly ascending order of their key (so no key occurs
\* twice).
C4_StrictlyAscending ==
    (last.endpoint \in CountEndpoints /\ last.status = 200) =>
        LET counts == last.body.counts
        IN  \A i, j \in DOMAIN counts :
                i < j => Before(BucketKey(counts[i]), BucketKey(counts[j]))

C4_Witness ==
    /\ CountsServed("volume")
    /\ Len(last.body.counts) > 24
    /\ \E i, j \in DOMAIN last.body.counts :
          last.body.counts[i].k.date # last.body.counts[j].k.date

RECURSIVE SlotsTotal(_, _, _)
\* The sum of the values of the hour slots lo..hi (in the order of the day)
\* of a day of the non-normal response, all populated.
SlotsTotal(day, lo, hi) ==
    IF lo > hi THEN 0
    ELSE IF lo = hi THEN day.slots[am_pm_map[lo][2]][1]
    ELSE SlotsTotal(day, lo, (lo + hi) \div 2) + SlotsTotal(day, (lo + hi) \div 2 + 1, hi)

\* C5: in the non-normal response a date with fewer than 24 populated hour
\* slots has a null total, and a date with 24 populated slots has the sum of
\* its 24 slot values as total.
C5_TotalOnlyOfFullDay ==
    CountsServed("non_normal") =>
        \A i \in DOMAIN last.body.counts :
            LET day == last.body.counts[i]
                populated == { f \in NonNormalHourlyCountFields : day.slots[f] # None }
            IN  /\ Cardinality(populated) < 24 => day.total = None
                /\ Cardinality(populated) = 24 => day.total = Some(SlotsTotal(day, 1, 24))

\* A response with a day of 23 slots (no total) and a day of 24 slots whose
\* total is 1 + 2 + ... + 24 plus the 5 of the second row of 08:00.
C5_Witness ==
    /\ CountsServed("non_normal")
    /\ \E i, j \in DOMAIN last.body.counts :
          /\ last.body.counts[i].total = None
          /\ Cardinality({ f \in NonNormalHourlyCountFields :
                             last.body.counts[i].slots[f] # None }) = 23
          /\ last.body.counts[j].total = Some(305)

\* The buckets the requested endpoint aggregates for the record before any
\* filtering, in order: the hourly sums of the raw rows (the per-day rows
\* for the non-normal endpoint).
Aggregated ==
    IF last.endpoint = "volume"
    THEN DictOfPairs(HourlyVolumeQuery(AggregatedTable, last.num))
    ELSE IF last.endpoint = "class" THEN HourlyClassQuery(last.num)
    ELSE reshape(NonNormalQuery(AggregatedTable, last.num))

\* C6: with include_suppressed = false the response holds exactly the
\* aggregated buckets whose calendar date is not a suppressed date of the
\* record, each unchanged and in the aggregated order, for the three
\* endpoints.
C6_SuppressedRemoved ==
    (last.endpoint \in CountEndpoints /\ last.status = 200 /\ ~last.include_suppressed)
    => last.body.counts
         = SelectSeq(Aggregated, LAMBDA b : BucketDate(b) \notin SuppressedSet)

C6_Witness ==
    /\ last.endpoint \in CountEndpoints /\ last.status = 200 /\ ~last.include_suppressed
    /\ Len(last.body.counts) > 0
    /\ Len(last.body.counts) < Len(Aggregated)

\* C7: with include_suppressed = true the response holds every aggregated
\* bucket (one for each hour, or day, in which the record has a raw row),
\* and suppressed_dates is the record's full set of suppressed dates.
C7_SuppressedKept ==
    (last.endpoint \in CountEndpoints /\ last.status = 200 /\ last.include_suppressed)
    => /\ last.body.counts = Aggregated
       /\ { BucketKey(last.body.counts[i]) : i \in DOMAIN last.body.counts }
            = { IF last.endpoint = "non_normal" THEN Ts(r.countdatetime.date, 0, 0)
                ELSE HourStart(r.countdatetime) : r \in AggregatedRows }
       /\ Range(last.body.suppressed_dates) = SuppressedSet

C7_Witness ==
    /\ CountsServed("volume") /\ last.include_suppressed
    /\ \E i \in DOMAIN last.body.counts : last.body.counts[i].k.date \in SuppressedSet
    /\ \E i \in DOMAIN last.body.counts : last.body.counts[i].k.date \notin SuppressedSet

\* C8: for a published record of a not-in-database sub-kind, every count
\* endpoint (hourly volume, non-normal volume, hourly class) answers with an
\* empty list of counts, an empty list of suppressed dates and the
\* static_pdf URL built from the label without its spaces and the record
\* number, and queries neither a raw count table nor tc_countdate.
C8_NotInDatabaseEverywhere ==
    (/\ last.endpoint \in CountEndpoints
     /\ \E h \in HeaderRows(last.num) :
           h.STATUS = "publish" /\ h.TYPE \in NotInDatabaseCountKind)
    => /\ last.status = 200
       /\ last.body.counts = << >>
       /\ last.body.suppressed_dates = << >>
       /\ last.body.static_pdf
            = Some([ base |-> STATIC_PDF_BASE,
                     sub_type_in_url |->
                         LET type == (CHOOSE h \in HeaderRows(last.num) : TRUE).TYPE
                         IN  IF type = <<"Turning", " ", "Movement">>
                             THEN <<"Turning", "Movement">>
                             ELSE IF type = <<"Manual", " ", "Class">>
                             THEN <<"Manual", "Class">>
                             ELSE type,
                     file |-> [recordnum |-> last.num, ext |-> ".pdf"] ])
       /\ Range(last.queries) \cap (RawTables \cup {"tc_countdate"}) = {}

CsvEndpoints == { "volume_csv", "non_normal_csv", "class_csv" }

\* The cache key (the path) of a CSV request.
CsvFileOf(request) ==
    IF request.endpoint = "volume_csv"
    THEN CsvPath("csv/volume", request.num,
                 IF request.include_suppressed THEN "_suppressed_included"
                 ELSE "_suppressed_excluded")
    ELSE IF request.endpoint = "class_csv" THEN CsvPath("csv/class", request.num, "")
    ELSE CsvPath("csv/non_normal_volume", request.num, "")

\* The timestamps of the record's aggregate recomputations.
Recomputations(num) == { r.date_calculated : r \in { x \in db.aadv : x.recordnum = num } }

\* C9: a CSV request that finds a cached file older than the record's latest
\* date_calculated regenerates it before serving it; so a recomputation
\* made after the file was written is always detected, and the file a CSV
\* request has just served is never older than a recomputation of the record.
C9_StaleNeverServed ==
    (last.endpoint \in CsvEndpoints /\ last.status = 200)
    => \A t \in Recomputations(last.num) : ~(files[CsvFileOf(last)].mtime < t)

\* A CSV request is answered in this step, and finds its file in the cache,
\* not older than any recomputation of the record.
CacheHit ==
    /\ last = Idle
    /\ last'.endpoint \in CsvEndpoints
    /\ CsvFileOf(last') \in DOMAIN files
    /\ \A t \in Recomputations(last'.num) : ~(files[CsvFileOf(last')].mtime < t)

\* The step serves the cached file as it is: no file is written, and only
\* the aadv table is queried.
ServedUnchanged ==
    /\ files' = files
    /\ last'.status = 200
    /\ last'.body = files[CsvFileOf(last')].content
    /\ Range(last'.queries) \cap (RawTables \cup {"tc_header", "tc_mcd", "tc_countdate"}) = {}

\* C10 as stated: a CSV request that finds its file in the cache, not older
\* than the latest recomputation, serves it unchanged, without rewriting it
\* and without a metadata, raw-observation or suppressed-date query.
C10_CacheHitAsStated == [][CacheHit => ServedUnchanged]_vars

\* C10, amended: the same, for a record that has at least one recomputation
\* in aadv (without one the handler regenerates the file on every request).
C10_CacheHit == [][(CacheHit /\ Recomputations(last'.num) # {}) => ServedUnchanged]_vars

\* A cached volume file is served unchanged after the database changed: it
\* differs from the file a regeneration would write now.
C10_Witness ==
    /\ last.endpoint = "volume_csv" /\ ~last.include_suppressed
    /\ last.status = 200
    /\ last.queries = Connection(<< "aadv" >>)
    /\ last.body # create_hourly_csv(CsvFileOf(last), last.num, FALSE)
                     .files[CsvFileOf(last)].content

\* The JSON worker of the kind of count a CSV request asks for, on db.
JsonWorkerOf(request) ==
    IF request.endpoint = "volume_csv"
    THEN get_hourly_volume(request.num, request.include_suppressed)
    ELSE IF request.endpoint = "class_csv"
    THEN get_hourly_class(request.num, request.include_suppressed)
    ELSE non_normal_get_hourly_volume(request.num, request.include_suppressed)

\* The first cell of the data row of a bucket.
KeyCell(endpoint, b) ==
    IF endpoint = "volume_csv" THEN DatetimeCell(b.k)
    ELSE IF endpoint = "class_csv" THEN DatetimeCell(b.DATETIME)
    ELSE DateCell(b.date)

BlankRows(content) == { i \in DOMAIN content : content[i] = EmptyRow }

\* The index of the blank row that ends the suppressed-dates section.
SecondBlank(content) ==
    CHOOSE i \in BlankRows(content) : Cardinality({ j \in BlankRows(content) : j < i }) = 1

\* The data rows of the count section of a file: the rows after the header
\* row that follows the second blank row, up to the next blank row.
CountRows(content) ==
    LET second == SecondBlank(content)
        later  == { j \in BlankRows(content) : j > second }
        end    == IF later = {} THEN Len(content)
                  ELSE (CHOOSE j \in later : \A x \in later : j <= x) - 1
    IN  SubSeq(content, second + 2, end)

\* C11: the file a CSV request for (n, v) returns has, in its count section,
\* exactly one data row per bucket the JSON endpoint returns for (n, v) on
\* the same database, in the same order; a file cached by a request with the
\* other value of include_suppressed is not served in its place.
C11_CsvMatchesJson ==
    (last.endpoint \in CsvEndpoints /\ last.status = 200)
    => LET json == JsonWorkerOf(last)
           rows == CountRows(last.body)
       IN  /\ json.exc = "ok"
           /\ Len(rows) = Len(json.val.counts)
           /\ \A i \in DOMAIN rows : rows[i][1] = KeyCell(last.endpoint, json.val.counts[i])

\* The complete files a generation for the request's record writes on db.
CompleteOutputs(request) ==
    LET csv_file == CsvFileOf(request)
        made(v) == IF request.endpoint = "volume_csv"
                   THEN create_hourly_csv(csv_file, request.num, v)
                   ELSE IF request.endpoint = "class_csv"
                   THEN create_hourly_class_csv(csv_file, request.num, v)
                   ELSE create_hourly_nonnormal_csv(csv_file, request.num, v)
    IN  { made(v).files[csv_file].content : v \in { x \in BOOLEAN : made(x).exc = "ok" } }

\* C12: under concurrent CSV requests every file returned to a client is the
\* complete output of one finished generation: the file served is not open
\* for writing by another request, and its content is not truncated.
C12_NoPartialFile ==
    (last.endpoint \in CsvEndpoints /\ last.status = 200)
    => /\ CsvFileOf(last) \notin DOMAIN writing
       /\ last.body \in CompleteOutputs(last)

\* The request in last is a CSV request that called its create function.
CsvGenerated == last.endpoint \in CsvEndpoints /\ "tc_header" \in Range(last.queries)

\* C13: a CSV request that has to generate its file is answered with an
\* error exactly when the JSON endpoint answers the same (record, flag) on
\* the same database with that error, and with a file when the JSON endpoint
\* answers with an envelope, one with zero buckets included.
C13_CsvFailsAsJson ==
    CsvGenerated
    => LET json == JsonResponse(JsonWorkerOf(last))
       IN  IF json.status = 200 THEN last.status = 200
           ELSE last.status = json.status /\ last.body = json.body

SuppressedLabels ==
    { "suppressed dates (included below):", "suppressed dates (not included below):",
      "suppressed_dates:" }

\* The row is made of text cells only.
IsNamesRow(row) == row # EmptyRow /\ \A i \in DOMAIN row : DOMAIN row[i] = {"str"}

\* Rows first to last of a file, the empty sequence when there are none.
RowsFrom(content, first, last_row) ==
    IF last_row < first THEN << >> ELSE SubSeq(content, first, last_row)

\* The layout of the file in body, generated for the envelope record of the
\* JSON worker: k suppressed dates, n buckets.
HasLayout(endpoint, body, record) ==
    LET k == Len(record.suppressed_dates)
        n == Len(record.counts)
    IN  /\ Len(body) >= 6 + k + n
        /\ body[1] = metadata_names_row
        /\ body[2] = metadata_values_row(record.metadata)
        /\ Len(body[2]) = Len(body[1])
        /\ body[3] = EmptyRow
        /\ \E label \in SuppressedLabels : body[4] = << StrCell(label) >>
        /\ \A i \in 1..k : body[4 + i] = << DateCell(record.suppressed_dates[i]) >>
        /\ body[5 + k] = EmptyRow
        /\ IsNamesRow(body[6 + k])
        /\ \A i \in 1..n :
              /\ Len(body[6 + k + i]) = Len(body[6 + k])
              /\ body[6 + k + i][1] = KeyCell(endpoint, record.counts[i])
        /\ LET rest == RowsFrom(body, 7 + k + n, Len(body))
           IN  \/ rest = << >>
               \/ /\ endpoint = "class_csv"
                  /\ Len(rest) = 2
                  /\ rest[1] = EmptyRow
                  /\ Len(rest[2]) = Len(body[6 + k])

\* C14: a generated CSV file holds, in this order, the row of metadata
\* field names, the row of metadata values (same length and field order),
\* a blank row, the suppressed-dates label row and one row per suppressed
\* date, a blank row, the header row of count field names, and one row per
\* bucket in envelope order (a class file ends with a blank row and a note).
C14_Layout ==
    (CsvGenerated /\ last.status = 200)
    => HasLayout(last.endpoint, last.body, JsonWorkerOf(last).val)

\* A class file was generated for two buckets and one suppressed date.
C14_Witness ==
    /\ CsvGenerated
    /\ last.status = 200
    /\ last.endpoint = "class_csv"
    /\ Len(JsonWorkerOf(last).val.counts) = 2
    /\ Len(JsonWorkerOf(last).val.suppressed_dates) = 1
    /\ Len(last.body) = 11

\* The raw classification rows of the requested record in the hour of a bucket.
ClassRowsOf(b) ==
    { r \in db.tc_clacount_new :
        r.recordnum = last.num /\ HourStart(r.countdatetime) = b.DATETIME }

\* C15: every class field of a bucket of a classification count, the
\* passenger cars and the unclassified vehicles included, is the sum of its
\* own raw column over the rows of the bucket's hour: nothing is subtracted
\* or added across columns.
C15_ColumnSumsOnly ==
    CountsServed("class")
    => \A i \in DOMAIN last.body.counts :
          LET b == last.body.counts[i]
          IN  /\ ClassRowsOf(b) # {}
              /\ \A j \in DOMAIN ClassSelect :
                    b[ClassSelect[j][2]] = SumOf(ClassRowsOf(b), ClassSelect[j][1])
              /\ b.PASSENGER_CARS = SumOf(ClassRowsOf(b), "cars_and_tlrs")
              /\ b.UNCLASSIFIED_VEHICLE = SumOf(ClassRowsOf(b), "unclassified")

\* A raw row with 10 passenger cars, 4 of them unclassified, alone in its
\* hour, is returned with exactly those two values.
C15_Witness ==
    /\ CountsServed("class")
    /\ \E i \in DOMAIN last.body.counts :
          LET b == last.body.counts[i]
          IN  /\ \E r \in ClassRowsOf(b) :
                    /\ ClassRowsOf(b) = {r}
                    /\ r.cars_and_tlrs = 10
                    /\ r.unclassified = 4
              /\ b.PASSENGER_CARS = 10
              /\ b.UNCLASSIFIED_VEHICLE = 4

\* The fields of a bucket of a classification count other than its total.
ClassFields == [ i \in 1..14 |-> HourlyClassFields[i + 2][1] ]

\* The sum of the per-class sub-totals of a bucket.
SubTotals(b) == SumRange(b, ClassFields, 1, Len(ClassFields), 0)

ValidationErrorRaised ==
    /\ "tc_header" \in Range(last.queries)
    /\ \E h \in HeaderRows(last.num) :
          /\ ~Coercible(h.SPEEDLIMIT)
          /\ last.endpoint = "record" \/ h.STATUS = "publish"

\* C17: a row that cannot be coerced into the record shape is answered by
\* every by-id endpoint with 500 and the message "Unexpected data type
\* found." and nothing else in the body, and the error is logged.
C17_ValidationErrorLogged ==
    ValidationErrorRaised
    => /\ last.status = 500
       /\ last.body = [message |-> "Unexpected data type found."]
       /\ last.logged

\* C18: no exception escapes a by-id handler of the routers: a JSON or CSV
\* request that does not succeed, whatever was raised and wherever (the
\* preparation of the cache directory included), is answered with a
\* {message} body and status 403, 404 or 500, and what is answered 500 was
\* logged.
C18_NoExceptionEscapes ==
    (last.endpoint \in ByIdEndpoints \cup CsvEndpoints /\ last.status # 200)
    => /\ last.status \in {403, 404, 500}
       /\ DOMAIN last.body = {"message"}
       /\ last.status = 500 => last.logged

\* The raw-observation tables of the hourly volume endpoints, with the
\* membership table that selects each.
VolumeTables ==
    [ tc_bikecount_new |-> BicycleCountKind, tc_pedcount_new |-> PedestrianCountKind,
      tc_volcount_new |-> VehicleCountKind ]

\* The tables whose membership test a sub-kind passes.
SelectedBy(sub_type) == { t \in DOMAIN VolumeTables : sub_type \in VolumeTables[t] }

KindTables ==
    << BicycleCountKind, PedestrianCountKind, VehicleCountKind, NotInDatabaseCountKind >>

\* C19: the four membership tables are pairwise disjoint, so a bicycle,
\* pedestrian or vehicle sub-kind selects exactly one of tc_bikecount_new,
\* tc_pedcount_new, tc_volcount_new, a not-in-database sub-kind selects
\* none, and the hourly volume endpoints query exactly the selected table.
C19_OneRawTable ==
    /\ \A i, j \in DOMAIN KindTables : i # j => KindTables[i] \cap KindTables[j] = {}
    /\ \A sub_type \in BicycleCountKind \cup PedestrianCountKind \cup VehicleCountKind :
          SelectedBy(sub_type) = { tc_table_of(sub_type) }
    /\ \A sub_type \in NotInDatabaseCountKind : SelectedBy(sub_type) = {}
    /\ (CountsServed("volume") \/ CountsServed("non_normal"))
       => \A h \in HeaderRows(last.num) :
             Range(last.queries) \cap DOMAIN VolumeTables = SelectedBy(h.TYPE)

\* A pedestrian count was served from tc_pedcount_new alone.
C19_Witness ==
    /\ CountsServed("volume")
    /\ \E h \in HeaderRows(last.num) :
          /\ h.TYPE \in PedestrianCountKind
          /\ Range(last.queries) \cap DOMAIN VolumeTables = {"tc_pedcount_new"}

\* The kinds a sub-kind belongs to, by the static tables.
KindsOf(type) ==
    (IF type \in BicycleCountKind THEN {"bicycle"} ELSE {})
    \cup (IF type \in PedestrianCountKind THEN {"pedestrian"} ELSE {})
    \cup (IF type \in VehicleCountKind THEN {"vehicle"} ELSE {})
    \cup (IF type \in NotInDatabaseCountKind THEN {"count data not in database"} ELSE {})

\* C20: the metadata of a published record carries the one kind whose
\* static table lists the header's sub-kind; for a sub-kind that no table
\* lists, get_metadata raises nothing and returns the metadata with
\* count_type unset and sub_type equal to the raw label.
C20_Classification ==
    last.endpoint = "metadata"
    => \A h \in HeaderRows(last.num) :
          h.STATUS = "publish"
          => /\ last.status = 200
             /\ last.body.sub_type = h.TYPE
             /\ Cardinality(KindsOf(h.TYPE)) <= 1
             /\ \A kind \in KindsOf(h.TYPE) : last.body.count_type = Some(kind)
             /\ KindsOf(h.TYPE) = {} => last.body.count_type = None

\* The metadata of a published record of a sub-kind that no table lists.
C20_Witness ==
    /\ last.endpoint = "metadata"
    /\ last.status = 200
    /\ last.body.sub_type = <<"Loop">>
    /\ last.body.count_type = None
    /\ KindsOf(last.body.sub_type) = {}

(***************************************************************************)
(* Database connections of one call.                                       *)
(***************************************************************************)
\* The connections a trace opens.
Connects(q) == Cardinality({ i \in DOMAIN q : q[i] = "connect" })

\* The connections open after the first i steps of a trace.
OpenAfter(q, i) ==
    Cardinality({ j \in 1..i : q[j] = "connect" }) - Cardinality({ j \in 1..i : q[j] = "close" })

\* C21 as stated: every call that reaches the database opens exactly one
\* connection, runs its queries on it and closes it before it responds.
C21_OneConnection ==
    last.queries # << >> =>
        /\ Connects(last.queries) = 1
        /\ OpenAfter(last.queries, Len(last.queries)) = 0

\* C21: the connections of a call are opened one at a time, every query runs
\* on the one open connection, and no connection is open when the handler
\* returns its response, whether that is a success or an error.
C21_ConnectionsClosed ==
    LET q == last.queries
    IN  /\ OpenAfter(q, Len(q)) = 0
        /\ \A i \in DOMAIN q :
              /\ OpenAfter(q, i) \in {0, 1}
              /\ q[i] \notin {"connect", "close"} => OpenAfter(q, i) = 1

\* An error response of a call that opened two connections, one after the
\* other.
C21_Witness ==
    /\ last.status = 500
    /\ Connects(last.queries) = 2

(***************************************************************************)
(* Failed queries.  The tables of db.failing do not change while a request *)
(* is handled, so a query of the trace failed iff its table is in it.      *)
(***************************************************************************)
FailedQueries == { i \in DOMAIN last.queries : last.queries[i] \in db.failing }

\* C22 as stated: a query that fails is not issued again, and the request
\* ends in an error response, the aadv query of the staleness check included.
C22_FailedQueryIsError ==
    \A i \in FailedQueries :
        /\ \A j \in DOMAIN last.queries \ {i} : last.queries[j] # last.queries[i]
        /\ last.status >= 400

\* C22: a query that fails is not issued again.  When it is not the aadv
\* query of the staleness check, nothing but the close of its connection
\* follows it and the response is a 500; when it is the aadv query, the CSV
\* handler goes on to regenerate the file, starting with the header query.
C22_NoRetry ==
    LET q == last.queries
    IN  \A i \in FailedQueries :
            /\ \A j \in DOMAIN q \ {i} : q[j] # q[i]
            /\ q[i] # "aadv" => last.status = 500 /\ i = Len(q) - 1 /\ q[Len(q)] = "close"
            /\ q[i] = "aadv" => last.endpoint \in CsvEndpoints /\ i = 2 /\ Len(q) > 4
                                   /\ q[5] = "tc_header"

\* The query of the suppressed dates, the second of its connection, failed.
C22_Witness ==
    /\ \E i \in FailedQueries : last.queries[i] = "tc_countdate"
    /\ last.status = 500

\* C23: a step in which a request is handled, successfully or not, leaves
\* every table of the database as it was; of the state outside the request
\* itself only the CSV cache (its directories and files) can change.
C23_DatabaseUnchanged ==
    [][last' # Idle => db' = db /\ now' = now /\ entries' = entries]_vars

\* A CSV request has written a file and was answered with it.
C23_Witness ==
    /\ last.endpoint \in CsvEndpoints
    /\ last.status = 200
    /\ CsvFileOf(last) \in DOMAIN files
    /\ "tc_header" \in Range(last.queries)

\* C24: the list endpoint answers with the record numbers in descending
\* order, whichever filters are given, also when none is given.
C24_ListDescending ==
    last.endpoint = "records" /\ last.status = 200 =>
        \A i, j \in DOMAIN last.body : i < j => last.body[i] > last.body[j]

\* The SOURCE a response reports: of the metadata and the legacy endpoint in
\* the body, of a count endpoint in the metadata of the body.
ReportedSource ==
    IF last.endpoint \in CountEndpoints THEN last.body.metadata.SOURCE ELSE last.body.SOURCE

\* C25: a record whose header has SOURCE "0" is reported with "DVRPC", one
\* with "-1" with "external", and one with any other SOURCE, null included,
\* with that SOURCE unchanged.
C25_SourceNormalized ==
    last.endpoint \in ByIdEndpoints \cup {"record"} /\ last.status = 200 =>
        \A h \in HeaderRows(last.num) :
            /\ h.SOURCE = Some("0") => ReportedSource = Some("DVRPC")
            /\ h.SOURCE = Some("-1") => ReportedSource = Some("external")
            /\ h.SOURCE \notin { Some("0"), Some("-1") } => ReportedSource = h.SOURCE

\* A record without SOURCE is reported without SOURCE.
C25_Witness ==
    /\ last.endpoint = "metadata"
    /\ last.status = 200
    /\ \E h \in HeaderRows(last.num) : h.SOURCE = None
    /\ ReportedSource = None

(***************************************************************************)
(* Non-normal reshaping.                                                   *)
(***************************************************************************)
\* The slot of each hour of the day, from hour 0 to hour 23.
SlotNames ==
    << "AM12", "AM1", "AM2", "AM3", "AM4", "AM5", "AM6", "AM7", "AM8", "AM9", "AM10", "AM11",
       "PM12", "PM1", "PM2", "PM3", "PM4", "PM5", "PM6", "PM7", "PM8", "PM9", "PM10", "PM11" >>

\* The raw rows of the requested record on a date and in an hour of the day.
RowsOfHour(d, h) ==
    { r \in AggregatedRows : r.countdatetime.date = d /\ r.countdatetime.hour = h }

\* The dates the non-normal response is to hold a record of.
ReshapedDates ==
    { r.countdatetime.date : r \in AggregatedRows }
        \ (IF last.include_suppressed THEN {} ELSE SuppressedSet)

\* C26: am_pm_map takes the 24 codes 00..23 one-to-one onto the 24 slot
\* names (hour h to the h-th of AM12, AM1..AM11, PM12, PM1..PM11), and the
\* non-normal response holds one record per distinct date, in which the
\* slot of an hour holds the sum of the volumes of that date and hour and
\* is empty when the date has no observation in that hour.
C26_OneRecordPerDate ==
    /\ Len(am_pm_map) = 24
    /\ \A h \in 0..23 : \A i \in DOMAIN am_pm_map :
          am_pm_map[i][1] = ToCharHH24(Ts(1, h, 0)) <=> am_pm_map[i][2] = SlotNames[h + 1]
    /\ Cardinality(Range(SlotNames)) = 24
    /\ CountsServed("non_normal") =>
          LET counts == last.body.counts
          IN  /\ { counts[i].date : i \in DOMAIN counts } = ReshapedDates
              /\ Len(counts) = Cardinality(ReshapedDates)
              /\ \A i \in DOMAIN counts : \A h \in 0..23 :
                    counts[i].slots[SlotNames[h + 1]] =
                        IF RowsOfHour(counts[i].date, h) = {} THEN None
                        ELSE Some(SumOf(RowsOfHour(counts[i].date, h), "volume"))

\* A response of two dates, one of them with observations in the hours 01
\* and 13 that differ in volume.
C26_Witness ==
    /\ CountsServed("non_normal")
    /\ Len(last.body.counts) = 2
    /\ \E i \in DOMAIN last.body.counts :
          /\ last.body.counts[i].slots["AM1"] # None
          /\ last.body.counts[i].slots["PM1"] # None
          /\ last.body.counts[i].slots["AM1"] # last.body.counts[i].slots["PM1"]

\* C27: with every table available, a CSV request for a record whose header
\* row is missing is answered 404 and one for a record whose header row is
\* not published is answered 403, whatever was requested before.
C27_CsvChecksHeader ==
    last.endpoint \in CsvEndpoints /\ db.failing = {} =>
        /\ HeaderRows(last.num) = {} => last.status = 404
        /\ (\E h \in HeaderRows(last.num) : h.STATUS # "publish") => last.status = 403

\* C28: a CSV request that is answered with an error leaves every cached
\* file, the one of its own key included, as it was: absent, or with the
\* content and modification time it had.
C28_FailedGenerationLeavesCache ==
    [][last'.endpoint \in CsvEndpoints /\ last'.status >= 400 => files' = files]_vars

\* The requested record is published with the sub-kind Loop, a label of
\* tc_counttype.
UnlistedPublished ==
    \E h \in HeaderRows(last.num) : h.STATUS = "publish" /\ h.TYPE \in UnlistedKinds

\* C29: the sub-kind Loop is in none of the bicycle, pedestrian, vehicle and
\* not-in-database tables, and for a published record of that sub-kind the
\* hourly-volume and the non-normal JSON endpoint query no raw-observation
\* table and answer 500 "Unknown error occurred.".
C29_UnlistedKindIs500 ==
    /\ UnlistedKinds \cap (BicycleCountKind \cup PedestrianCountKind \cup VehicleCountKind
                              \cup NotInDatabaseCountKind) = {}
    /\ last.endpoint \in {"volume", "non_normal"} /\ UnlistedPublished =>
        /\ last.status = 500
        /\ last.body = [message |-> "Unknown error occurred."]
        /\ Range(last.queries) \cap RawTables = {}

C29_Witness ==
    /\ last.endpoint = "non_normal"
    /\ UnlistedPublished
    /\ last.status = 500
    /\ "tc_header" \in Range(last.queries)

\* C30: the legacy by-id endpoint answers 404 "Record not found" when the
\* record has no header row; when it has one, whatever its STATUS, the
\* answer is never 403: it is the record with its counts when the row
\* passes the validation of Record, and a 500 otherwise.
C30_LegacyIgnoresStatus ==
    last.endpoint = "record" =>
        /\ last.status # 403
        /\ HeaderRows(last.num) = {} =>
              last.status = 404 /\ last.body = [message |-> "Record not found"]
        /\ \A h \in HeaderRows(last.num) :
              IF Coercible(h.SPEEDLIMIT) /\ h.TYPE \in LegacyKinds
              THEN /\ last.status = 200
                   /\ last.body.RECORDNUM = last.num
                   /\ "counts" \in DOMAIN last.body
              ELSE last.status = 500

\* The record of a header row that is not published is returned.
C30_Witness ==
    /\ last.endpoint = "record"
    /\ \E h \in HeaderRows(last.num) : h.STATUS # "publish"
    /\ last.status = 200
    /\ last.body.RECORDNUM = last.num
====
